---- MODULE Spec2Model ----
(***************************************************************************)
(* Model of the resumable harvesting-and-reconciliation scripts of the     *)
(* planning-applications repository (src/1. scripts).                      *)
(*                                                                         *)
(* A text cell of a CSV file is a sequence of tokens.  A locator is one    *)
(* token that holds no ";" (the separator of observation_urls); the        *)
(* sentinels DOWNLOAD_FAILED and EXISTS are one token each.  The empty     *)
(* string is the empty sequence.                                           *)
(***************************************************************************)
EXTENDS Integers, Sequences, FiniteSets, TLC

VARIABLES
    total,        \* len(df): number of rows of the filtered input
    N_WORKERS,    \* sys.argv[2]
    chunks,       \* per worker id, the slices [start, end) its launches computed
    fs,           \* the outputs directory: file name |-> [header, rows]
    script,       \* the script that is running
    mpc,          \* the block of the merge script that runs next
    frame,        \* the DataFrame a merge script holds (base in 3a, df in 3d)
    call,         \* a function of the crawler that is applied, with its arguments
    ret,          \* what the call returned (<<>> before it returns)
    proc,         \* per worker id, the process of the running script
    downloads,    \* the files of the downloads directory
    crashes       \* how many times a process was killed

partVars == <<total, N_WORKERS, chunks>>
mergeVars == <<fs, script, mpc, frame>>
crawlVars == <<call, ret>>
pipeVars == <<proc, downloads, crashes>>

vars == <<partVars, mergeVars, crawlVars, pipeVars>>

\* what the actions of one group leave alone
notPart == <<mergeVars, crawlVars, pipeVars>>
notMerge == <<partVars, crawlVars, pipeVars>>
notCrawl == <<partVars, mergeVars, pipeVars>>
notPipe == <<total, N_WORKERS, chunks, crawlVars>>
mf == <<mpc, frame>>

PipeIdle == proc = <<>> /\ downloads = {} /\ crashes = 0

CrawlIdle == call = <<>> /\ ret = <<>>

PartIdle == total = 0 /\ N_WORKERS = 1 /\ chunks = <<>>
MergeIdle == fs = <<>> /\ script = "" /\ mpc = "" /\ frame = <<>>

(***************************************************************************)
(* Ledger rows.  The columns are those of the record of 0.scrape.py        *)
(* main, lines 210-219.  A frame read from a file holds the cells as the   *)
(* file holds them (an empty cell is the empty sequence).                  *)
(***************************************************************************)
SEP == ";"
DOWNLOAD_FAILED == "DOWNLOAD_FAILED"
EXISTS == "EXISTS"
PAGE_GOTO == "Page.goto"

\* repr(e) of a failed navigation and of a failed pagination click
GotoError == <<"TimeoutError", PAGE_GOTO, "Timeout exceeded">>
ClickError == <<"TimeoutError", "Locator.click", "Timeout exceeded">>

Columns == {"worker_id", "row_index", "application_number", "no_record_found",
            "has_third_party_observation", "n_observation_letters",
            "observation_urls", "error"}

Row(w, r, a, nr, has, n, urls, err) ==
    [worker_id |-> w, row_index |-> r, application_number |-> a,
     no_record_found |-> nr, has_third_party_observation |-> has,
     n_observation_letters |-> n, observation_urls |-> urls, error |-> err]

SeqsUpTo(S, n) == UNION {[1..k -> S] : k \in 0..n}

\* ";".join(urls)
RECURSIVE join(_)
join(urls) ==
    IF urls = <<>> THEN <<>>
    ELSE IF Len(urls) = 1 THEN (IF urls[1] = "" THEN <<>> ELSE <<urls[1]>>)
    ELSE (IF urls[1] = "" THEN <<>> ELSE <<urls[1]>>) \o <<SEP>> \o join(Tail(urls))

\* s.split(";"): the parts between the separators; "" is an empty part
RECURSIVE split(_)
split(s) ==
    IF s = <<>> THEN <<"">>
    ELSE IF Head(s) = SEP THEN <<"">> \o split(Tail(s))
    ELSE IF Len(s) = 1 THEN <<Head(s)>>
    ELSE IF s[2] = SEP THEN <<Head(s)>> \o split(SubSeq(s, 3, Len(s)))
    ELSE <<Head(s)>> \o split(Tail(s))

File(rows) == [header |-> 1, rows |-> rows]

exists(f) == f \in DOMAIN fs

read_csv(f) == fs[f].rows

to_csv_Appends(files, f, rows) ==
    IF f \in DOMAIN files THEN [files EXCEPT ![f].rows = @ \o rows]
    ELSE [g \in DOMAIN files \cup {f} |-> IF g = f THEN File(rows) ELSE files[g]]

\* DataFrame.to_csv(path, index=False): the file is written anew
to_csv(files, f, rows) == [g \in DOMAIN files \cup {f} |-> IF g = f THEN File(rows) ELSE files[g]]

index(df) == [i \in 1..Len(df) |-> df[i].row_index]

InIndex(df, idx) == \E i \in 1..Len(df) : df[i].row_index = idx

(***************************************************************************)
(* 3a.merge_outputs.py                                                     *)
(***************************************************************************)
N_WORKER_FILES == 10
PAGE_FIX == <<"rerun_page_failures_results", 0>>
DL_FIX == <<"rerun_download_failures_results", 0>>
MERGED == <<"third_party_obs_merged", 0>>
WORKERS(i) == <<"third_party_obs_worker", i>>

\* lines 27-32: the worker files that exist, concatenated in worker order
RECURSIVE concat_workers(_)
concat_workers(n) ==
    IF n = 0 THEN <<>>
    ELSE concat_workers(n - 1) \o
         (IF exists(WORKERS(n - 1)) THEN read_csv(WORKERS(n - 1)) ELSE <<>>)

RECURSIVE drop_duplicates_KeepsLast(_)
drop_duplicates_KeepsLast(df) ==
    IF df = <<>> THEN <<>>
    ELSE LET rest == drop_duplicates_KeepsLast(Tail(df))
         IN  IF InIndex(rest, Head(df).row_index) THEN rest ELSE <<Head(df)>> \o rest

\* line 33: drop_duplicates(subset=["row_index"], keep="first")
RECURSIVE drop_duplicates(_)
drop_duplicates(df) ==
    IF df = <<>> THEN <<>>
    ELSE LET init == drop_duplicates(SubSeq(df, 1, Len(df) - 1))
             last == df[Len(df)]
         IN  IF InIndex(init, last.row_index) THEN init ELSE Append(init, last)

set_row_KeepsOldError(df, idx, row) ==
    IF InIndex(df, idx)
    THEN [i \in 1..Len(df) |->
            IF df[i].row_index = idx THEN [row EXCEPT !.error = df[i].error] ELSE df[i]]
    ELSE Append(df, row)

\* base.loc[idx] = row: the row labelled idx is replaced whole, or the frame
\* is enlarged by it when no row has the label
set_row(df, idx, row) ==
    IF InIndex(df, idx)
    THEN [i \in 1..Len(df) |-> IF df[i].row_index = idx THEN row ELSE df[i]]
    ELSE Append(df, row)

\* base.loc[idx, "observation_urls"] = urls
set_urls(df, idx, urls) ==
    [i \in 1..Len(df) |->
        IF df[i].row_index = idx THEN [df[i] EXCEPT !.observation_urls = urls]
        ELSE df[i]]

\* lines 42-43: for idx in page_fix.index: base.loc[idx] = page_fix.loc[idx]
RECURSIVE apply_page_fix(_, _)
apply_page_fix(df, page_fix) ==
    IF page_fix = <<>> THEN df
    ELSE apply_page_fix(set_row(df, Head(page_fix).row_index, Head(page_fix)),
                        Tail(page_fix))

patch_WholeRow(df, row) ==
    IF ~InIndex(df, row.row_index) THEN df
    ELSE set_row(df, row.row_index, row)

patch_AppendsPositions(df, row) ==
    [i \in 1..Len(df) |->
        IF df[i].row_index = row.row_index
        THEN [df[i] EXCEPT !.observation_urls = @ \o <<SEP>> \o row.observation_urls]
        ELSE df[i]]

\* lines 51-54 (and 3d lines 30-32): one row of a download-retry ledger
patch(df, row) ==
    IF ~InIndex(df, row.row_index) THEN df
    ELSE set_urls(df, row.row_index, row.observation_urls)

RECURSIVE apply_dl_fix(_, _)
apply_dl_fix(df, dl_fix) ==
    IF dl_fix = <<>> THEN df
    ELSE apply_dl_fix(patch(df, Head(dl_fix)), Tail(dl_fix))

(***************************************************************************)
(* 3d.merge_outputs_again.py                                               *)
(***************************************************************************)
N_ROUND2_FILES == 8
MERGED_V2 == <<"third_party_obs_merged_v2", 0>>
ROUND2_WORKER(i) == <<"rerun_download_failures_round2_worker", i>>

RECURSIVE merge_round2_Descending(_, _)
merge_round2_Descending(df, n) ==
    IF n = 0 THEN df
    ELSE merge_round2_Descending(IF exists(ROUND2_WORKER(n - 1))
                                 THEN apply_dl_fix(df, read_csv(ROUND2_WORKER(n - 1)))
                                 ELSE df,
                                 n - 1)

\* lines 24-32: the worker files that exist, applied in worker order
RECURSIVE merge_round2(_, _)
merge_round2(df, n) ==
    IF n = 0 THEN df
    ELSE LET before == merge_round2(df, n - 1)
         IN  IF exists(ROUND2_WORKER(n - 1))
             THEN apply_dl_fix(before, read_csv(ROUND2_WORKER(n - 1)))
             ELSE before

(***************************************************************************)
(* The merge scripts, run on ledger files drawn from a small set of rows.  *)
(***************************************************************************)
MaxBaseRows == 2
MaxPatchRows == 2
MergeRowIds == {5, 6}

BaseRows ==
    {Row(0, r, <<"2345", "/", "20">>, 0, TRUE, 2, <<"url1", SEP, DOWNLOAD_FAILED>>, <<>>) : r \in MergeRowIds}
    \cup {Row(1, r, <<"2346", "/", "20">>, 0, FALSE, 0, <<>>, GotoError) : r \in MergeRowIds}

PageRows ==
    {Row(2, r, <<"2347", "/", "20">>, 1, FALSE, 0, <<>>, <<>>) : r \in MergeRowIds}
    \cup {Row(3, r, <<"2348", "/", "20">>, 0, TRUE, 1, <<"url3">>, <<>>) : r \in MergeRowIds}

PatchRows ==
    {Row(4, r, <<"2349", "/", "20">>, 0, TRUE, 2, <<"url1", SEP, "url2">>, <<>>) : r \in MergeRowIds}
    \cup {Row(5, r, <<"2350", "/", "20">>, 1, FALSE, 3, <<"url1", SEP, EXISTS, SEP, DOWNLOAD_FAILED>>, ClickError)
             : r \in MergeRowIds}

UniqueIndex(df) == \A i, j \in 1..Len(df) : df[i].row_index = df[j].row_index => i = j

\* a ledger file that may be absent; a file that exists holds a row, since
\* it is created by the first append
Maybe(f, rowSeqs) == {<<>>} \cup {(f :> File(rows)) : rows \in rowSeqs \ {<<>>}}

MergeInit ==
    /\ PartIdle /\ CrawlIdle /\ PipeIdle
    /\ mpc = "load"
    /\ frame = <<>>
    /\ \/ /\ script = "3a"
          /\ \E w0 \in Maybe(WORKERS(0), SeqsUpTo(BaseRows, MaxBaseRows)),
                w1 \in Maybe(WORKERS(1), SeqsUpTo(BaseRows, 1)),
                pf \in Maybe(PAGE_FIX, {df \in SeqsUpTo(PageRows, 2) : UniqueIndex(df)}),
                dl \in Maybe(DL_FIX, SeqsUpTo(PatchRows, MaxPatchRows)) :
                fs = w0 @@ w1 @@ pf @@ dl
       \/ /\ script = "3d"
          /\ \E m \in {df \in SeqsUpTo(BaseRows \cup PageRows, 2) : UniqueIndex(df) /\ df # <<>>},
                w0 \in Maybe(ROUND2_WORKER(0), SeqsUpTo(PatchRows, MaxPatchRows)),
                w1 \in Maybe(ROUND2_WORKER(1), SeqsUpTo(PatchRows, 1)) :
                fs = (MERGED :> File(m)) @@ w0 @@ w1

\* 3a lines 27-34.  pd.concat raises when no worker file exists.
Load3a ==
    /\ script = "3a" /\ mpc = "load"
    /\ IF \E i \in 0..(N_WORKER_FILES - 1) : exists(WORKERS(i))
       THEN frame' = drop_duplicates(concat_workers(N_WORKER_FILES)) /\ mpc' = "page"
       ELSE frame' = frame /\ mpc' = "raised"
    /\ UNCHANGED <<fs, script, notMerge>>

\* 3a lines 38-43
PageOverride3a ==
    /\ script = "3a" /\ mpc = "page"
    /\ frame' = IF exists(PAGE_FIX) THEN apply_page_fix(frame, read_csv(PAGE_FIX)) ELSE frame
    /\ mpc' = "dl"
    /\ UNCHANGED <<fs, script, notMerge>>

\* 3a lines 47-54
DlPatch3a ==
    /\ script = "3a" /\ mpc = "dl"
    /\ frame' = IF exists(DL_FIX) THEN apply_dl_fix(frame, read_csv(DL_FIX)) ELSE frame
    /\ mpc' = "write"
    /\ UNCHANGED <<fs, script, notMerge>>

\* 3a line 58
Write3a ==
    /\ script = "3a" /\ mpc = "write"
    /\ fs' = to_csv(fs, MERGED, frame)
    /\ mpc' = "done"
    /\ UNCHANGED <<frame, script, notMerge>>

\* 3d lines 20-21
Load3d ==
    /\ script = "3d" /\ mpc = "load"
    /\ frame' = read_csv(MERGED)
    /\ mpc' = "dl"
    /\ UNCHANGED <<fs, script, notMerge>>

\* 3d lines 24-32
Merge3d ==
    /\ script = "3d" /\ mpc = "dl"
    /\ frame' = merge_round2(frame, N_ROUND2_FILES)
    /\ mpc' = "write"
    /\ UNCHANGED <<fs, script, notMerge>>

\* 3d line 34
Write3d ==
    /\ script = "3d" /\ mpc = "write"
    /\ fs' = to_csv(fs, MERGED_V2, frame)
    /\ mpc' = "done"
    /\ UNCHANGED <<frame, script, notMerge>>

MergeNext ==
    \/ Load3a \/ PageOverride3a \/ DlPatch3a \/ Write3a
    \/ Load3d \/ Merge3d \/ Write3d

SpecMerge == MergeInit /\ [][MergeNext]_vars


\* ---- the merge claims --------------------------------------------------
RowsOf(f) == IF exists(f) THEN fs[f].rows ELSE <<>>

\* the rows of a ledger that carry row_index r, in file order
RowsAt(df, r) == SelectSeq(df, LAMBDA row : row.row_index = r)

FirstAt(df, r) == Head(RowsAt(df, r))
LastAt(df, r) == RowsAt(df, r)[Len(RowsAt(df, r))]

BaseInput == RowsOf(WORKERS(0)) \o RowsOf(WORKERS(1))
Round2Input == RowsOf(ROUND2_WORKER(0)) \o RowsOf(ROUND2_WORKER(1))

Done3a == script = "3a" /\ mpc = "done"
Done3d == script = "3d" /\ mpc = "done"

\* C6: after 3a, a row_index that has a base row and a page-level retry row
\* and no download-retry row holds exactly the page-level retry row, in
\* every field.
PageLevelFullOverride ==
    Done3a =>
        \A r \in MergeRowIds :
            (/\ InIndex(BaseInput, r)
             /\ InIndex(RowsOf(PAGE_FIX), r)
             /\ ~InIndex(RowsOf(DL_FIX), r))
            => RowsAt(RowsOf(MERGED), r) = <<FirstAt(RowsOf(PAGE_FIX), r)>>

PageLevelFullOverrideWitness ==
    /\ Done3a
    /\ \E r \in MergeRowIds :
          /\ InIndex(BaseInput, r)
          /\ InIndex(RowsOf(PAGE_FIX), r)
          /\ ~InIndex(RowsOf(DL_FIX), r)
          /\ InIndex(RowsOf(DL_FIX), 11 - r)
          /\ FirstAt(BaseInput, r).observation_urls # <<>>
          /\ FirstAt(RowsOf(PAGE_FIX), r).no_record_found = 1

\* C7: after 3a (and after 3d), a row_index that has a row in the merge
\* target and rows in the download-retry ledger only holds the target's row
\* with observation_urls replaced by those of the (last) download-retry row
\* and every other field as it was; a download-retry row whose row_index is
\* not in the merge target creates no row.
ArtifactLevelPatch ==
    /\ Done3a =>
          \A r \in MergeRowIds :
              (InIndex(RowsOf(DL_FIX), r) /\ ~InIndex(RowsOf(PAGE_FIX), r)) =>
                  IF InIndex(BaseInput, r)
                  THEN RowsAt(RowsOf(MERGED), r) =
                          <<[FirstAt(BaseInput, r) EXCEPT !.observation_urls =
                                LastAt(RowsOf(DL_FIX), r).observation_urls]>>
                  ELSE RowsAt(RowsOf(MERGED), r) = <<>>
    /\ Done3d =>
          \A r \in MergeRowIds :
              InIndex(Round2Input, r) =>
                  IF InIndex(RowsOf(MERGED), r)
                  THEN RowsAt(RowsOf(MERGED_V2), r) =
                          <<[FirstAt(RowsOf(MERGED), r) EXCEPT !.observation_urls =
                                LastAt(Round2Input, r).observation_urls]>>
                  ELSE RowsAt(RowsOf(MERGED_V2), r) = <<>>

ArtifactLevelPatchWitness ==
    /\ Done3a
    /\ InIndex(RowsOf(DL_FIX), 5) /\ InIndex(RowsOf(DL_FIX), 6)
    /\ ~InIndex(RowsOf(PAGE_FIX), 5) /\ ~InIndex(RowsOf(PAGE_FIX), 6)
    /\ InIndex(BaseInput, 5) /\ ~InIndex(BaseInput, 6)
    /\ FirstAt(BaseInput, 5).error # <<>>
    /\ RowsAt(RowsOf(MERGED), 5) # <<FirstAt(BaseInput, 5)>>

\* C8: after 3a, a row_index that has a page-level retry row and a
\* download-retry row holds the page-level retry row in every field.
PageLevelPrecedence ==
    Done3a =>
        \A r \in MergeRowIds :
            (InIndex(RowsOf(PAGE_FIX), r) /\ InIndex(RowsOf(DL_FIX), r))
            => RowsAt(RowsOf(MERGED), r) = <<FirstAt(RowsOf(PAGE_FIX), r)>>


\* ---- the claims on the canonical dataset of one merge --------------------
IdsOf(df) == {df[i].row_index : i \in 1..Len(df)}

\* C28: the dataset 3a writes has one row for each row_index of the base
\* ledgers and of the page-level ledger and no other row; a row_index that
\* the page-level ledger does not carry holds the first of its base rows in
\* worker-file order, with the positions patched if round 1 carries it; the
\* dataset 3d writes has one row for each row_index of its input.
KeyedAndDeduplicated ==
    /\ Done3a =>
          /\ UniqueIndex(RowsOf(MERGED))
          /\ IdsOf(RowsOf(MERGED)) = IdsOf(BaseInput) \cup IdsOf(RowsOf(PAGE_FIX))
          /\ \A r \in IdsOf(BaseInput) \ IdsOf(RowsOf(PAGE_FIX)) :
                RowsAt(RowsOf(MERGED), r) =
                    <<[FirstAt(BaseInput, r) EXCEPT !.observation_urls =
                          IF InIndex(RowsOf(DL_FIX), r)
                          THEN LastAt(RowsOf(DL_FIX), r).observation_urls ELSE @]>>
    /\ Done3d =>
          /\ UniqueIndex(RowsOf(MERGED_V2))
          /\ index(RowsOf(MERGED_V2)) = index(RowsOf(MERGED))

\* the base ledgers hold two different rows of row_index 5, in two worker
\* files, no retry ledger carries it, and 3a has kept the first
KeyedAndDeduplicatedWitness ==
    /\ Done3a
    /\ InIndex(RowsOf(WORKERS(0)), 5) /\ InIndex(RowsOf(WORKERS(1)), 5)
    /\ FirstAt(BaseInput, 5) # LastAt(BaseInput, 5)
    /\ ~InIndex(RowsOf(PAGE_FIX), 5) /\ ~InIndex(RowsOf(DL_FIX), 5)
    /\ RowsAt(RowsOf(MERGED), 5) = <<FirstAt(BaseInput, 5)>>
    /\ Len(RowsOf(MERGED)) = 2

(***************************************************************************)
(* The portal, as the scripts see it.  The listing of one application is   *)
(* a sequence of pages; a page holds its observation icons in document     *)
(* order, each with the outcome of resolving it, and the state of its Next *)
(* control.  The locator of an artifact is fixed by its place in the       *)
(* listing.                                                                *)
(***************************************************************************)
MaxPages == 2
MaxIcons == 2

\* popup: the click opens a popup whose url is the locator and the HTTP
\* download succeeds; download: the popup times out, the click starts a
\* download whose url is the locator and the HTTP download succeeds; fail:
\* some step raises
Outcomes == {"popup", "download", "fail"}

\* Next control: absent, class "disabled", clickable, or reading/clicking
\* it raises
Page(icons, next) == [icons |-> icons, next |-> next]

WellFormed(listing) ==
    \A p \in 1..Len(listing) :
        IF p < Len(listing) THEN listing[p].next = "enabled"
        ELSE listing[p].next \in {"absent", "disabled", "raises"}

ListingsOver(outcomes, maxPages, maxIcons) ==
    LET pages == {Page(ic, nx) : ic \in SeqsUpTo(outcomes, maxIcons),
                                 nx \in {"absent", "disabled", "enabled", "raises"}}
    IN  UNION {{l \in [1..k -> pages] : WellFormed(l)} : k \in 1..maxPages}

Listings == ListingsOver(Outcomes, MaxPages, MaxIcons)

DocUrls == <<"url1", "url2", "url3", "url4", "url5", "url6", "url7", "url8",
             "url9", "url10", "url11", "url12", "url13", "url14", "url15", "url16">>

RECURSIVE IconsBefore(_, _)
IconsBefore(listing, p) ==
    IF p = 1 THEN 0 ELSE IconsBefore(listing, p - 1) + Len(listing[p - 1].icons)

\* popup.url / dl.value.url of icon i of page p
doc_url(listing, p, i) == DocUrls[IconsBefore(listing, p) + i]

\* app_no.replace("/", "_")
safe_app(app_no) == [t \in 1..Len(app_no) |-> IF app_no[t] = "/" THEN "_" ELSE app_no[t]]

\* OUT_DIR / f"{safe_app}_obs_{k}.pdf"
out_file(app_no, k) == <<safe_app(app_no), k>>

(***************************************************************************)
(* Pagination Crawler of the harvest passes                                *)
(***************************************************************************)
scrape_icon_DropsFailure(acc, listing, p, i, app_no) ==
    IF listing[p].icons[i] # "fail"
    THEN [acc EXCEPT !.urls = Append(@, doc_url(listing, p, i)),
                     !.files = @ \cup {out_file(app_no, Len(acc.urls) + 1)}]
    ELSE acc

\* 0.scrape.py lines 127-151: one icon
scrape_icon(acc, listing, p, i, app_no) ==
    IF listing[p].icons[i] # "fail"
    THEN [acc EXCEPT !.urls = Append(@, doc_url(listing, p, i)),
                     !.files = @ \cup {out_file(app_no, Len(acc.urls) + 1)}]
    ELSE [acc EXCEPT !.urls = Append(@, DOWNLOAD_FAILED)]

\* 2a lines 147-180: one icon
rerun_icon(acc, listing, p, i, app_no) ==
    IF out_file(app_no, Len(acc.urls) + 1) \in acc.files
    THEN [acc EXCEPT !.urls = Append(@, EXISTS)]
    ELSE IF listing[p].icons[i] # "fail"
    THEN [acc EXCEPT !.urls = Append(@, doc_url(listing, p, i)),
                     !.files = @ \cup {out_file(app_no, Len(acc.urls) + 1)}]
    ELSE [acc EXCEPT !.urls = Append(@, DOWNLOAD_FAILED)]

RECURSIVE page_icons(_, _, _, _, _, _)
page_icons(acc, listing, p, i, app_no, pass) ==
    IF i > Len(listing[p].icons) THEN acc
    ELSE page_icons(IF pass = "0.scrape" THEN scrape_icon(acc, listing, p, i, app_no)
                    ELSE rerun_icon(acc, listing, p, i, app_no),
                    listing, p, i + 1, app_no, pass)

\* 0.scrape.py lines 123-166, 2a lines 143-194: the loop over the pages.
\* raised: the pagination raised and no list is returned.
RECURSIVE crawl_pages(_, _, _, _, _)
crawl_pages(acc, listing, p, app_no, pass) ==
    LET after == page_icons(acc, listing, p, 1, app_no, pass)
    IN  CASE listing[p].next \in {"absent", "disabled"} -> after
          [] listing[p].next = "raises" -> [after EXCEPT !.raised = TRUE]
          [] OTHER -> crawl_pages(after, listing, p + 1, app_no, pass)

extract_all_pages_observations(listing, app_no, files, pass) ==
    crawl_pages([urls |-> <<>>, files |-> files, raised |-> FALSE], listing, 1, app_no, pass)

(***************************************************************************)
(* Targeted re-fetch                                                       *)
(***************************************************************************)
\* urls[i] = v, for a 0-based i
set_at(urls, i, v) == [urls EXCEPT ![i + 1] = v]

redownload_icon_IgnoresFailedPositions(acc, listing, p, i, app_no, failed_positions) ==
    IF acc.returned \/ acc.obs_index >= Len(acc.urls) THEN [acc EXCEPT !.returned = TRUE]
    ELSE IF out_file(app_no, acc.obs_index + 1) \in acc.files
    THEN [acc EXCEPT !.urls = set_at(@, acc.obs_index, EXISTS), !.obs_index = @ + 1]
    ELSE IF listing[p].icons[i] # "fail"
    THEN [acc EXCEPT !.urls = set_at(@, acc.obs_index, doc_url(listing, p, i)),
                     !.files = @ \cup {out_file(app_no, acc.obs_index + 1)},
                     !.obs_index = @ + 1]
    ELSE [acc EXCEPT !.urls = set_at(@, acc.obs_index, DOWNLOAD_FAILED), !.obs_index = @ + 1]

\* 2b lines 173-216: one icon.  returned: the function has returned at
\* line 176.
redownload_icon(acc, listing, p, i, app_no, failed_positions) ==
    IF acc.returned \/ acc.obs_index >= Len(acc.urls) THEN [acc EXCEPT !.returned = TRUE]
    ELSE IF acc.obs_index \notin failed_positions THEN [acc EXCEPT !.obs_index = @ + 1]
    ELSE IF out_file(app_no, acc.obs_index + 1) \in acc.files
    THEN [acc EXCEPT !.urls = set_at(@, acc.obs_index, EXISTS), !.obs_index = @ + 1]
    ELSE IF listing[p].icons[i] # "fail"
    THEN [acc EXCEPT !.urls = set_at(@, acc.obs_index, doc_url(listing, p, i)),
                     !.files = @ \cup {out_file(app_no, acc.obs_index + 1)},
                     !.obs_index = @ + 1]
    ELSE [acc EXCEPT !.urls = set_at(@, acc.obs_index, DOWNLOAD_FAILED), !.obs_index = @ + 1]

RECURSIVE redownload_icons(_, _, _, _, _, _)
redownload_icons(acc, listing, p, i, app_no, failed_positions) ==
    IF i > Len(listing[p].icons) THEN acc
    ELSE redownload_icons(redownload_icon(acc, listing, p, i, app_no, failed_positions),
                          listing, p, i + 1, app_no, failed_positions)

\* 2b lines 169-230: the loop over the pages; clicks counts the clicks on
\* the Next control (lines 218-228)
RECURSIVE redownload_pages(_, _, _, _, _)
redownload_pages(acc, listing, p, app_no, failed_positions) ==
    LET after == redownload_icons(acc, listing, p, 1, app_no, failed_positions)
        clicked == [after EXCEPT !.clicks = @ + 1]
    IN  CASE after.returned -> after
          [] listing[p].next \in {"absent", "disabled"} -> after
          [] listing[p].next = "raises" -> [clicked EXCEPT !.raised = TRUE]
          [] OTHER -> redownload_pages(clicked, listing, p + 1, app_no, failed_positions)

\* 2b lines 156-230
crawl_and_redownload_failed_positions(listing, app_no, original_urls, failed_positions, files) ==
    redownload_pages([urls |-> original_urls, obs_index |-> 0, files |-> files,
                      returned |-> FALSE, raised |-> FALSE, clicks |-> 0],
                     listing, 1, app_no, failed_positions)

round2_position_MarksFailed(acc, icons, i, app_no) ==
    IF i < Len(icons) /\ icons[i + 1] = "popup"
    THEN [acc EXCEPT !.urls = set_at(@, i, DocUrls[i + 1]),
                     !.files = @ \cup {out_file(app_no, i + 1)}]
    ELSE [acc EXCEPT !.urls = set_at(@, i, DOWNLOAD_FAILED)]

round2_position_AppendsLocator(acc, icons, i, app_no) ==
    IF acc.urls[i + 1] # DOWNLOAD_FAILED THEN acc
    ELSE IF i < Len(icons) /\ icons[i + 1] = "popup"
    THEN [acc EXCEPT !.urls = Append(@, DocUrls[i + 1]),
                     !.files = @ \cup {out_file(app_no, i + 1)}]
    ELSE acc

\* 3c lines 119-139 (3f lines 80-97): position i of the row's list.  Only
\* the first page of the listing is open, the i-th icon of that page is
\* clicked, and only the popup is waited for.
round2_position(acc, icons, i, app_no) ==
    IF acc.urls[i + 1] # DOWNLOAD_FAILED THEN acc
    ELSE IF i < Len(icons) /\ icons[i + 1] = "popup"
    THEN [acc EXCEPT !.urls = set_at(@, i, DocUrls[i + 1]),
                     !.files = @ \cup {out_file(app_no, i + 1)}]
    ELSE acc

RECURSIVE round2_positions(_, _, _, _, _)
round2_positions(acc, icons, i, app_no, n) ==
    IF i >= n THEN acc
    ELSE round2_positions(round2_position(acc, icons, i, app_no), icons, i + 1, app_no, n)

\* 3c lines 113-142: goto_ok is whether page.goto returned
round2_refetch(goto_ok, icons, app_no, urls, files) ==
    IF goto_ok
    THEN round2_positions([urls |-> urls, files |-> files], icons, 0, app_no, Len(urls))
    ELSE [urls |-> urls, files |-> files]

(***************************************************************************)
(* The "no records" signal.  A read of #searchResult_info finds no such    *)
(* element, raises, or returns the text.                                   *)
(***************************************************************************)
ZERO_MARKER == "0 to 0 of 0"
ZeroText == <<"Showing", ZERO_MARKER, "entries">>
SomeText == <<"Showing", "1 to 3 of 3", "entries">>
INFO_ABSENT == <<"(no element)">>
INFO_RAISES == <<"(inner_text raises)">>
InfoReads == {INFO_ABSENT, INFO_RAISES, ZeroText, SomeText}

Contains(text, token) == \E t \in 1..Len(text) : text[t] = token

\* 0.scrape.py lines 103-110 (2a lines 111-118, 2b lines 116-123): reads is
\* what successive reads of the summary return; one read is made
page_has_no_records(reads) ==
    IF reads[1] \in {INFO_ABSENT, INFO_RAISES} THEN FALSE
    ELSE Contains(reads[1], ZERO_MARKER)

\* 0.tester.py lines 68-87: two reads, 750 ms apart
page_has_no_records_tester(reads) ==
    IF reads[1] \in {INFO_ABSENT, INFO_RAISES} \/ reads[2] = INFO_RAISES THEN FALSE
    ELSE IF reads[1] # reads[2] THEN FALSE
    ELSE Contains(reads[2], ZERO_MARKER)

(***************************************************************************)
(* Navigation to the listing of an item.  gotos[k] is whether the k-th     *)
(* call of page.goto returns.                                              *)
(***************************************************************************)
GOTO_ATTEMPTS == 3
BACKOFF_BASE_S == 6

\* 0.scrape.py line 222 (3c line 114, 3f line 75): one call of page.goto,
\* inside the try block of the item
goto(gotos) ==
    [ok |-> gotos[1], attempts |-> 1, slept |-> <<>>, raised |-> IF gotos[1] THEN 0 ELSE 1]

RECURSIVE safe_goto_from_SleepsThenGivesUp(_, _, _)
safe_goto_from_SleepsThenGivesUp(gotos, attempt, slept) ==
    IF gotos[attempt]
    THEN [ok |-> TRUE, attempts |-> attempt, slept |-> slept, raised |-> 0]
    ELSE IF attempt = GOTO_ATTEMPTS
    THEN [ok |-> FALSE, attempts |-> attempt,
          slept |-> Append(slept, BACKOFF_BASE_S * attempt), raised |-> attempt]
    ELSE safe_goto_from_SleepsThenGivesUp(gotos, attempt + 1,
                                          Append(slept, BACKOFF_BASE_S * attempt))

\* 2a lines 87-97 (2b lines 92-102): the loop from a given attempt on;
\* slept is the sleeps made so far, in seconds; raised is the attempt whose
\* exception leaves the function (0: none)
RECURSIVE safe_goto_from(_, _, _)
safe_goto_from(gotos, attempt, slept) ==
    IF gotos[attempt]
    THEN [ok |-> TRUE, attempts |-> attempt, slept |-> slept, raised |-> 0]
    ELSE IF attempt = GOTO_ATTEMPTS
    THEN [ok |-> FALSE, attempts |-> attempt, slept |-> slept, raised |-> attempt]
    ELSE safe_goto_from(gotos, attempt + 1, Append(slept, BACKOFF_BASE_S * attempt))

\* 2a lines 85-98 (2b lines 90-103)
safe_goto(gotos) == safe_goto_from(gotos, 1, <<>>)

(***************************************************************************)
(* The crawler functions, applied to every listing, list and file set of   *)
(* the bounds.                                                             *)
(***************************************************************************)
MaxUrls == 3
MaxFiles == 2
CrawlApp == <<"2345", "/", "20">>

\* a locator written by an earlier pass
OLD_URL == "urlA"

CrawlInit ==
    /\ PartIdle /\ MergeIdle /\ PipeIdle
    /\ ret = <<>>
    /\ \/ \E l \in Listings :
             call = [fn |-> "extract_all_pages_observations", pass |-> "0.scrape",
                     listing |-> l, files |-> {}]
       \/ \E l \in Listings, f \in SUBSET {out_file(CrawlApp, k) : k \in 1..MaxFiles} :
             call = [fn |-> "extract_all_pages_observations", pass |-> "2a",
                     listing |-> l, files |-> f]
       \/ \E l \in ListingsOver({"popup", "fail"}, MaxPages, MaxIcons),
             u \in SeqsUpTo({DOWNLOAD_FAILED, OLD_URL}, MaxUrls),
             fp \in SUBSET (0..MaxUrls),
             f \in SUBSET {out_file(CrawlApp, k) : k \in 1..MaxFiles} :
             call = [fn |-> "crawl_and_redownload_failed_positions", listing |-> l,
                     original_urls |-> u, failed_positions |-> fp, files |-> f]
       \/ \E ic \in SeqsUpTo(Outcomes, MaxIcons), ok \in BOOLEAN,
             u \in SeqsUpTo({DOWNLOAD_FAILED, OLD_URL}, MaxUrls) \ {<<>>},
             f \in SUBSET {out_file(CrawlApp, k) : k \in 1..MaxFiles} :
             call = [fn |-> "round2_refetch", goto_ok |-> ok, icons |-> ic,
                     original_urls |-> u, files |-> f]
       \/ \E r1 \in InfoReads, r2 \in InfoReads \ {INFO_ABSENT}, v \in {"page_has_no_records", "page_has_no_records_tester"} :
             call = [fn |-> v, reads |-> <<r1, r2>>]
       \/ \E g \in [1..GOTO_ATTEMPTS -> BOOLEAN], v \in {"goto", "safe_goto"} :
             call = [fn |-> v, gotos |-> g]

Returned == ret # <<>>

CallExtract ==
    /\ ~Returned /\ call.fn = "extract_all_pages_observations"
    /\ ret' = extract_all_pages_observations(call.listing, CrawlApp, call.files, call.pass)
    /\ UNCHANGED <<call, notCrawl>>

CallRedownload ==
    /\ ~Returned /\ call.fn = "crawl_and_redownload_failed_positions"
    /\ ret' = crawl_and_redownload_failed_positions(call.listing, CrawlApp,
                 call.original_urls, call.failed_positions, call.files)
    /\ UNCHANGED <<call, notCrawl>>

CallRound2 ==
    /\ ~Returned /\ call.fn = "round2_refetch"
    /\ ret' = round2_refetch(call.goto_ok, call.icons, CrawlApp, call.original_urls, call.files)
    /\ UNCHANGED <<call, notCrawl>>

CallNoRecords ==
    /\ ~Returned /\ call.fn = "page_has_no_records"
    /\ ret' = [no_records |-> page_has_no_records(call.reads)]
    /\ UNCHANGED <<call, notCrawl>>

CallNoRecordsTester ==
    /\ ~Returned /\ call.fn = "page_has_no_records_tester"
    /\ ret' = [no_records |-> page_has_no_records_tester(call.reads)]
    /\ UNCHANGED <<call, notCrawl>>

CallGoto ==
    /\ ~Returned /\ call.fn = "goto"
    /\ ret' = goto(call.gotos)
    /\ UNCHANGED <<call, notCrawl>>

CallSafeGoto ==
    /\ ~Returned /\ call.fn = "safe_goto"
    /\ ret' = safe_goto(call.gotos)
    /\ UNCHANGED <<call, notCrawl>>

CrawlNext ==
    \/ CallExtract \/ CallRedownload \/ CallRound2
    \/ CallNoRecords \/ CallNoRecordsTester
    \/ CallGoto \/ CallSafeGoto

SpecCrawl == CrawlInit /\ [][CrawlNext]_vars

\* ---- the crawler claims ------------------------------------------------
\* the outcomes of the icons of all pages, in page order then document order
RECURSIVE AllIcons(_)
AllIcons(listing) ==
    IF listing = <<>> THEN <<>>
    ELSE Head(listing).icons \o AllIcons(Tail(listing))

ExtractReturned ==
    /\ Returned /\ call.fn = "extract_all_pages_observations"
    /\ ~ret.raised

\* C4: the list extract_all_pages_observations returns (0.scrape and 2a) has
\* one entry per icon of all the pages; entry k is the locator of the k-th
\* icon of the listing when its resolution succeeded and DOWNLOAD_FAILED
\* when it failed (in 2a no resolution is made for an icon whose file
\* exists).
PositionalIntegrity ==
    ExtractReturned =>
        LET icons == AllIcons(call.listing)
        IN  /\ Len(ret.urls) = Len(icons)
            /\ \A k \in 1..Len(icons) :
                  (call.pass = "2a" /\ out_file(CrawlApp, k) \in call.files)
                  \/ ret.urls[k] = (IF icons[k] = "fail" THEN DOWNLOAD_FAILED ELSE DocUrls[k])

\* three artifacts on two pages, the second failing
PositionalIntegrityWitness ==
    /\ ExtractReturned
    /\ call.pass = "0.scrape"
    /\ Len(call.listing) = 2
    /\ ret.urls = <<"url1", DOWNLOAD_FAILED, "url3">>

RedownloadReturned ==
    /\ Returned /\ call.fn = "crawl_and_redownload_failed_positions"
    /\ ~ret.raised

\* the failed_indices of rounds 2 and 3: the positions that hold DOWNLOAD_FAILED
FailedIndices(urls) == {i \in 0..(Len(urls) - 1) : urls[i + 1] = DOWNLOAD_FAILED}

\* C5: the list a targeted re-fetch produces has the length of the input
\* list and holds the input's value at every index outside failed_indices.
UntouchedPositionsPreserved ==
    /\ RedownloadReturned =>
          /\ Len(ret.urls) = Len(call.original_urls)
          /\ \A i \in 0..(Len(call.original_urls) - 1) :
                i \notin call.failed_positions => ret.urls[i + 1] = call.original_urls[i + 1]
    /\ (Returned /\ call.fn = "round2_refetch") =>
          /\ Len(ret.urls) = Len(call.original_urls)
          /\ \A i \in 0..(Len(call.original_urls) - 1) :
                i \notin FailedIndices(call.original_urls)
                    => ret.urls[i + 1] = call.original_urls[i + 1]

\* a failed position outside failed_indices is passed over while a later one
\* is re-fetched
UntouchedPositionsPreservedWitness ==
    /\ RedownloadReturned
    /\ call.original_urls = <<DOWNLOAD_FAILED, OLD_URL, DOWNLOAD_FAILED>>
    /\ call.failed_positions = {2}
    /\ ret.urls = <<DOWNLOAD_FAILED, OLD_URL, "url3">>

\* C9: an item is classified NO_RECORDS by a harvesting pass only when the
\* zero-total marker is shown on two successive reads of the summary.
NoRecordsConfirmed ==
    (Returned /\ call.fn = "page_has_no_records" /\ ret.no_records) =>
        /\ Contains(call.reads[1], ZERO_MARKER)
        /\ Contains(call.reads[2], ZERO_MARKER)

\* C11: in every harvest pass a navigation that ends as a page-level
\* failure was attempted more than once, and every attempt up to the cap
\* failed.
BoundedNavigationRetry ==
    (Returned /\ call.fn \in {"goto", "safe_goto"} /\ ~ret.ok) =>
        /\ ret.attempts > 1
        /\ \A k \in 1..GOTO_ATTEMPTS : ~call.gotos[k]

\* C25: safe_goto makes at most GOTO_ATTEMPTS attempts and returns at the
\* first that succeeds; it has then slept BACKOFF_BASE_S * k after each
\* failed attempt k before it, and k < GOTO_ATTEMPTS; the sleeps grow
\* strictly; when every attempt fails it does not sleep after the last one
\* and the exception of that last attempt leaves the function.
SafeGotoProtocol ==
    (Returned /\ call.fn = "safe_goto") =>
        /\ ret.attempts \in 1..GOTO_ATTEMPTS
        /\ \A k \in 1..(ret.attempts - 1) : ~call.gotos[k]
        /\ ret.ok <=> call.gotos[ret.attempts]
        /\ ret.slept = [k \in 1..(ret.attempts - 1) |-> BACKOFF_BASE_S * k]
        /\ \A k \in 1..(Len(ret.slept) - 1) : ret.slept[k] < ret.slept[k + 1]
        /\ Len(ret.slept) < GOTO_ATTEMPTS
        /\ ret.raised = IF ret.ok THEN 0 ELSE GOTO_ATTEMPTS

\* every attempt has failed: two sleeps, of 6 and 12 seconds, and the
\* exception of the third attempt
SafeGotoProtocolWitness ==
    /\ Returned /\ call.fn = "safe_goto"
    /\ ~ret.ok /\ ret.attempts = GOTO_ATTEMPTS
    /\ ret.slept = <<6, 12>>
    /\ ret.raised = 3

Leftover(listing, m) ==
    {out_file(CrawlApp, k) : k \in {j \in 1..m : /\ j <= Len(AllIcons(listing))
                                                 /\ AllIcons(listing)[j] # "fail"}}

\* C18: the list a harvest pass records for an item that an interrupted
\* attempt had begun is the list an attempt with no interruption records
\* on the same listing.
InterruptionLeavesNoTrace ==
    (ExtractReturned /\ \E m \in 0..MaxFiles : call.files = Leftover(call.listing, m)) =>
        ret.urls = extract_all_pages_observations(call.listing, CrawlApp, {}, call.pass).urls

\* the positions of the original list that the 2b crawler reaches on the
\* listing
Reached(listing, urls) == {i \in 0..(Len(urls) - 1) : i < Len(AllIcons(listing))}

\* C19: a targeted re-fetch (2b, 3c, 3f) sets to EXISTS every failed
\* position it reaches whose artifact file is already on disk.
AlreadyPresentNotRefetched ==
    /\ RedownloadReturned =>
          \A i \in Reached(call.listing, call.original_urls) \cap call.failed_positions :
              out_file(CrawlApp, i + 1) \in call.files => ret.urls[i + 1] = EXISTS
    /\ (Returned /\ call.fn = "round2_refetch" /\ call.goto_ok) =>
          \A i \in FailedIndices(call.original_urls) :
              (i < Len(call.icons) /\ out_file(CrawlApp, i + 1) \in call.files)
                  => ret.urls[i + 1] = EXISTS

(***************************************************************************)
(* Bounds                                                                  *)
(***************************************************************************)
MaxTotal == 7
MaxWorkers == 4

(***************************************************************************)
(* Work Partitioner: 0.scrape.py main, lines 190-194 (the same four lines  *)
(* are in 3c and 3f).                                                      *)
(***************************************************************************)
chunk(T, N) == T \div N

start_Zero(T, N, w) == 0

start(T, N, w) == w * chunk(T, N)

end_AlwaysChunk(T, N, w) == (w + 1) * chunk(T, N)

end(T, N, w) == IF w = N - 1 THEN T ELSE (w + 1) * chunk(T, N)

\* df.iloc[start:end]: the positions of the slice
iloc(T, N, w) == {p \in 0..(T - 1) : start(T, N, w) <= p /\ p < end(T, N, w)}

PartInit ==
    /\ total \in 0..MaxTotal
    /\ N_WORKERS \in 1..MaxWorkers
    /\ chunks = [w \in 0..(N_WORKERS - 1) |-> {}]
    /\ MergeIdle /\ CrawlIdle /\ PipeIdle

\* a launch (or relaunch) of worker w computes its slice
LaunchWorker(w) ==
    /\ chunks' = [chunks EXCEPT ![w] = @ \cup {iloc(total, N_WORKERS, w)}]
    /\ UNCHANGED <<total, N_WORKERS, notPart>>

PartNext == \E w \in 0..(N_WORKERS - 1) : LaunchWorker(w)

SpecPartition == PartInit /\ [][PartNext]_vars

\* C2: the slices of the launched workers are pairwise disjoint, every launch
\* of one worker computes the same slice, and once every worker has been
\* launched the slices cover exactly the positions 0..total-1.
PartitionComplete ==
    /\ \A w \in DOMAIN chunks : Cardinality(chunks[w]) <= 1
    /\ \A w1, w2 \in DOMAIN chunks : \A s1 \in chunks[w1], s2 \in chunks[w2] :
           w1 # w2 => s1 \cap s2 = {}
    /\ (\A w \in DOMAIN chunks : chunks[w] # {}) =>
           UNION {UNION chunks[w] : w \in DOMAIN chunks} = 0..(total - 1)

\* a run in which the item count is not a multiple of the worker count and
\* every worker has been launched
PartitionWitness ==
    /\ N_WORKERS >= 2
    /\ total % N_WORKERS # 0
    /\ total > N_WORKERS
    /\ \A w \in DOMAIN chunks : chunks[w] # {}

(***************************************************************************)
(* The pipeline: the scripts run one after the other on the files the      *)
(* earlier ones wrote.                                                     *)
(***************************************************************************)
NumRows == 3
MaxPipeWorkers == 2
MaxCrashes == 1
PipePages == 2
PipeIcons == 1

\* the listings the portal shows to the scripts of the pipeline; a Next
\* control that is disabled ends the crawl as an absent one does
PipeListings ==
    {l \in ListingsOver({"popup", "fail"}, PipePages, PipeIcons) : l[Len(l)].next # "disabled"}

\* what the portal answers to one visit of a script of the pipeline: the
\* navigation fails, the page shows the zero-result summary, or it shows a
\* listing
Visits ==
    {[goto_ok |-> FALSE, reads |-> <<SomeText, SomeText>>, listing |-> <<Page(<<>>, "absent")>>],
     [goto_ok |-> TRUE, reads |-> <<ZeroText, ZeroText>>, listing |-> <<Page(<<>>, "absent")>>]}
    \cup {[goto_ok |-> TRUE, reads |-> <<SomeText, SomeText>>, listing |-> l] : l \in PipeListings}

AppNos == <<<<"2345", "/", "20">>, <<"2346", "/", "20">>, <<"WEB1432", "/", "24">>,
            <<"1710">>, <<"2347", "/", "21">>, <<"2348", "/", "21">>>>

\* the input file: row k (0-based) is of another authority when k = 1
INPUT_CSV ==
    [k \in 0..(NumRows - 1) |->
        [authority |-> IF k = 1 THEN "Fingal County Council" ELSE "Dublin City Council",
         application_number |-> AppNos[k + 1]]]

\* 0.scrape.py lines 187-188: the labels of the rows kept, in file order
RECURSIVE filter_dublin(_)
filter_dublin(n) ==
    IF n = 0 THEN <<>>
    ELSE filter_dublin(n - 1) \o
         (IF INPUT_CSV[n - 1].authority = "Dublin City Council" THEN <<n - 1>> ELSE <<>>)

df_index == filter_dublin(NumRows)

\* the labels of df.iloc[start:end]
df_chunk(w) == {df_index[p + 1] : p \in iloc(total, N_WORKERS, w)}

append_record_SkipsErrors(f, record) ==
    IF record.error # <<>> THEN fs
    ELSE IF exists(f) THEN [fs EXCEPT ![f].rows = Append(@, record)]
    ELSE fs @@ (f :> [header |-> 1, rows |-> <<record>>])

append_record_Rewrites(f, record) == to_csv(fs, f, <<record>>)

\* append_record (0.scrape.py lines 175-178)
append_record(f, record) ==
    IF exists(f) THEN [fs EXCEPT ![f].rows = Append(@, record)]
    ELSE fs @@ (f :> [header |-> 1, rows |-> <<record>>])

load_done_rows_Nothing(f) == {}

\* load_done_rows (0.scrape.py lines 169-172)
load_done_rows(f) ==
    IF ~exists(f) THEN {}
    ELSE {read_csv(f)[i].row_index : i \in 1..Len(read_csv(f))}

Idle == [pc |-> "idle", done |-> {}, pos |-> 0]

PipeInit ==
    /\ total = Len(df_index)
    /\ N_WORKERS \in 1..MaxPipeWorkers
    /\ chunks = <<>>
    /\ CrawlIdle
    /\ mpc = "" /\ frame = <<>>
    /\ fs = <<>> /\ downloads = {} /\ crashes = 0
    /\ script = "0.scrape"
    /\ proc = [w \in 0..(N_WORKERS - 1) |-> Idle]

\* 0.scrape.py lines 185-203
HarvestLaunch(w) ==
    /\ script = "0.scrape" /\ proc[w].pc = "idle"
    /\ proc' = [proc EXCEPT ![w] = [pc |-> "running",
                                    done |-> load_done_rows(WORKERS(w)),
                                    pos |-> start(total, N_WORKERS, w)]]
    /\ UNCHANGED <<fs, script, downloads, crashes, mf, notPipe>>

harvest_item_NoRecordsAsError(w, idx, goto_ok, reads, listing) ==
    LET app_no == INPUT_CSV[idx].application_number
        record == Row(w, idx, app_no, 0, FALSE, 0, <<>>, <<>>)
        got == extract_all_pages_observations(listing, app_no, downloads, "0.scrape")
    IN  IF ~goto_ok THEN [record |-> [record EXCEPT !.error = GotoError], files |-> downloads]
        ELSE IF page_has_no_records(reads)
        THEN [record |-> [record EXCEPT !.no_record_found = 1, !.error = <<"no records">>],
              files |-> downloads]
        ELSE IF got.raised
        THEN [record |-> [record EXCEPT !.error = ClickError], files |-> got.files]
        ELSE [record |-> [record EXCEPT !.n_observation_letters = Len(got.urls),
                                        !.has_third_party_observation = Len(got.urls) > 0,
                                        !.observation_urls = join(got.urls)],
              files |-> got.files]

harvest_item_KeepsPartialList(w, idx, goto_ok, reads, listing) ==
    LET app_no == INPUT_CSV[idx].application_number
        record == Row(w, idx, app_no, 0, FALSE, 0, <<>>, <<>>)
        got == extract_all_pages_observations(listing, app_no, downloads, "0.scrape")
    IN  IF ~goto_ok THEN [record |-> [record EXCEPT !.error = GotoError], files |-> downloads]
        ELSE IF page_has_no_records(reads)
        THEN [record |-> [record EXCEPT !.no_record_found = 1], files |-> downloads]
        ELSE [record |-> [record EXCEPT !.n_observation_letters = Len(got.urls),
                                        !.has_third_party_observation = Len(got.urls) > 0,
                                        !.observation_urls = join(got.urls),
                                        !.error = IF got.raised THEN ClickError ELSE <<>>],
              files |-> got.files]

\* 0.scrape.py lines 209-235: the record of one item and the files written
harvest_item(w, idx, goto_ok, reads, listing) ==
    LET app_no == INPUT_CSV[idx].application_number
        record == Row(w, idx, app_no, 0, FALSE, 0, <<>>, <<>>)
        got == extract_all_pages_observations(listing, app_no, downloads, "0.scrape")
    IN  IF ~goto_ok THEN [record |-> [record EXCEPT !.error = GotoError], files |-> downloads]
        ELSE IF page_has_no_records(reads)
        THEN [record |-> [record EXCEPT !.no_record_found = 1], files |-> downloads]
        ELSE IF got.raised
        THEN [record |-> [record EXCEPT !.error = ClickError], files |-> got.files]
        ELSE [record |-> [record EXCEPT !.n_observation_letters = Len(got.urls),
                                        !.has_third_party_observation = Len(got.urls) > 0,
                                        !.observation_urls = join(got.urls)],
              files |-> got.files]

\* 0.scrape.py lines 205-239: one turn of the loop
HarvestItem(w) ==
    /\ script = "0.scrape" /\ proc[w].pc = "running"
    /\ proc[w].pos < end(total, N_WORKERS, w)
    /\ LET idx == df_index[proc[w].pos + 1]
       IN  IF idx \in proc[w].done
           THEN UNCHANGED <<fs, downloads>>
           ELSE \E v \in Visits :
                   LET it == harvest_item(w, idx, v.goto_ok, v.reads, v.listing)
                   IN  /\ fs' = append_record(WORKERS(w), it.record)
                       /\ downloads' = it.files
    /\ proc' = [proc EXCEPT ![w].pos = @ + 1]
    /\ UNCHANGED <<script, crashes, mf, notPipe>>

\* 0.scrape.py lines 245-247
HarvestFinish(w) ==
    /\ script = "0.scrape" /\ proc[w].pc = "running"
    /\ proc[w].pos >= end(total, N_WORKERS, w)
    /\ proc' = [proc EXCEPT ![w].pc = "finished"]
    /\ UNCHANGED <<fs, script, downloads, crashes, mf, notPipe>>

\* a process of a pass that reads its own ledger at launch is killed
\* between two appends; it can be launched again
Kill(w) ==
    /\ script \in {"0.scrape", "2a", "2b"}
    /\ proc[w].pc = "running"
    /\ crashes < MaxCrashes
    /\ crashes' = crashes + 1
    /\ proc' = [proc EXCEPT ![w] = Idle]
    /\ UNCHANGED <<fs, script, downloads, mf, notPipe>>

(***************************************************************************)
(* 1.collect_failures.py                                                   *)
(***************************************************************************)
PAGE_FAIL_OUT == <<"rerun_page_failures", 0>>
DOWNLOAD_FAIL_OUT == <<"rerun_download_failures", 0>>

\* str(cell).strip() of a cell read by pandas: an empty cell is NaN
str_cell(cell) == IF cell = <<>> THEN <<"nan">> ELSE cell

Digits == <<"0", "1", "2", "3", "4", "5", "6", "7", "8", "9">>

\* ",".join(map(str, failed_positions)), for indices given in ascending order
RECURSIVE join_positions(_)
join_positions(idxs) ==
    IF idxs = <<>> THEN <<>>
    ELSE IF Len(idxs) = 1 THEN <<Digits[idxs[1] + 1]>>
    ELSE <<Digits[idxs[1] + 1], ",">> \o join_positions(Tail(idxs))

RECURSIVE failed_of_OneBased(_, _)
failed_of_OneBased(parts, n) ==
    IF n = 0 THEN <<>>
    ELSE failed_of_OneBased(parts, n - 1) \o (IF parts[n] = DOWNLOAD_FAILED THEN <<n>> ELSE <<>>)

\* lines 43-45: [i for i, p in enumerate(parts) if p == "DOWNLOAD_FAILED"]
RECURSIVE failed_of(_, _)
failed_of(parts, n) ==
    IF n = 0 THEN <<>>
    ELSE failed_of(parts, n - 1) \o (IF parts[n] = DOWNLOAD_FAILED THEN <<n - 1>> ELSE <<>>)

classify_row_NoContinue(lists, row) ==
    LET error == str_cell(row.error)
        urls == str_cell(row.observation_urls)
        parts == split(urls)
        page == IF error # <<>> /\ Contains(error, PAGE_GOTO) THEN Append(lists[1], row)
                ELSE lists[1]
    IN  IF Contains(urls, DOWNLOAD_FAILED)
        THEN <<page,
               Append(lists[2],
                      [row_index |-> row.row_index, worker_id |-> row.worker_id,
                       application_number |-> row.application_number,
                       failed_positions |-> join_positions(failed_of(parts, Len(parts))),
                       observation_urls |-> urls])>>
        ELSE <<page, lists[2]>>

\* lines 31-53: one row of a worker file; lists is <<page rows, download rows>>
classify_row(lists, row) ==
    LET error == str_cell(row.error)
        urls == str_cell(row.observation_urls)
        parts == split(urls)
    IN  IF error # <<>> /\ Contains(error, PAGE_GOTO)
        THEN <<Append(lists[1], row), lists[2]>>
        ELSE IF Contains(urls, DOWNLOAD_FAILED)
        THEN <<lists[1],
               Append(lists[2],
                      [row_index |-> row.row_index, worker_id |-> row.worker_id,
                       application_number |-> row.application_number,
                       failed_positions |-> join_positions(failed_of(parts, Len(parts))),
                       observation_urls |-> urls])>>
        ELSE lists

RECURSIVE classify_rows(_, _)
classify_rows(lists, rows) ==
    IF rows = <<>> THEN lists
    ELSE classify_rows(classify_row(lists, Head(rows)), Tail(rows))

\* lines 25-53: the worker files that exist, in worker order
RECURSIVE classify_files(_)
classify_files(n) ==
    IF n = 0 THEN <<<<>>, <<>>>>
    ELSE IF exists(WORKERS(n - 1))
    THEN classify_rows(classify_files(n - 1), read_csv(WORKERS(n - 1)))
    ELSE classify_files(n - 1)

\* lines 57-63: a list that is empty is not written
write_if_rows(files, f, rows) == IF rows = <<>> THEN files ELSE to_csv(files, f, rows)

AllFinished == \A w \in DOMAIN proc : proc[w].pc = "finished"

Reset == [w \in DOMAIN proc |-> Idle]

\* the whole script, run once every harvest worker has finished
CollectFailures ==
    /\ script = "0.scrape" /\ AllFinished
    /\ LET lists == classify_files(N_WORKER_FILES)
       IN  fs' = write_if_rows(write_if_rows(fs, PAGE_FAIL_OUT, lists[1]),
                               DOWNLOAD_FAIL_OUT, lists[2])
    /\ script' = "2a"
    /\ proc' = Reset
    /\ UNCHANGED <<downloads, crashes, mf, notPipe>>

(***************************************************************************)
(* 2a.rerun_failed_observations.py                                         *)
(***************************************************************************)
\* lines 223-227: the rows of the worklist whose error holds "Page.goto"
page_worklist ==
    IF ~exists(PAGE_FAIL_OUT) THEN <<>>
    ELSE SelectSeq(read_csv(PAGE_FAIL_OUT),
                   LAMBDA row : Contains(str_cell(row.error), PAGE_GOTO))

load_done_row_indices_Nothing(f) == {}

\* 2a lines 197-204 (2b lines 233-240): the row_index values of the
\* round's own ledger
load_done_row_indices(f) ==
    IF ~exists(f) THEN {}
    ELSE {read_csv(f)[i].row_index : i \in 1..Len(read_csv(f))}

\* lines 218-242.  With no worklist the script returns at once.
Launch2a ==
    /\ script = "2a" /\ proc[0].pc = "idle"
    /\ IF page_worklist = <<>>
       THEN proc' = [proc EXCEPT ![0].pc = "finished"]
       ELSE proc' = [proc EXCEPT ![0] = [pc |-> "running",
                                         done |-> load_done_row_indices(PAGE_FIX),
                                         pos |-> 0]]
    /\ UNCHANGED <<fs, script, downloads, crashes, mf, notPipe>>

\* lines 249-283: the record of one row of the worklist and the files written
rerun_item(row, goto_ok, reads, listing) ==
    LET app_no == row.application_number
        record == Row(row.worker_id, row.row_index, app_no, 0, FALSE, 0, <<>>, <<>>)
        got == extract_all_pages_observations(listing, app_no, downloads, "2a")
    IN  IF ~goto_ok THEN [record |-> [record EXCEPT !.error = GotoError], files |-> downloads]
        ELSE IF page_has_no_records(reads)
        THEN [record |-> [record EXCEPT !.no_record_found = 1], files |-> downloads]
        ELSE IF got.raised
        THEN [record |-> [record EXCEPT !.error = ClickError], files |-> got.files]
        ELSE [record |-> [record EXCEPT !.n_observation_letters = Len(got.urls),
                                        !.has_third_party_observation = Len(got.urls) > 0,
                                        !.observation_urls = join(got.urls)],
              files |-> got.files]

\* lines 244-287: one turn of the loop.  goto_ok: one of the attempts of
\* safe_goto succeeded.
Item2a ==
    /\ script = "2a" /\ proc[0].pc = "running"
    /\ proc[0].pos < Len(page_worklist)
    /\ LET row == page_worklist[proc[0].pos + 1]
       IN  IF row.row_index \in proc[0].done
           THEN /\ UNCHANGED <<fs, downloads>>
                /\ proc' = [proc EXCEPT ![0].pos = @ + 1]
           ELSE /\ \E v \in Visits :
                      LET it == rerun_item(row, v.goto_ok, v.reads, v.listing)
                      IN  /\ fs' = append_record(PAGE_FIX, it.record)
                          /\ downloads' = it.files
                /\ proc' = [proc EXCEPT ![0].pos = @ + 1,
                                        ![0].done = @ \cup {row.row_index}]
    /\ UNCHANGED <<script, crashes, mf, notPipe>>

\* lines 289-295, and the next script is started
Finish2a ==
    /\ script = "2a"
    /\ \/ proc[0].pc = "finished"
       \/ proc[0].pc = "running" /\ proc[0].pos >= Len(page_worklist)
    /\ script' = "2b"
    /\ proc' = Reset
    /\ UNCHANGED <<fs, downloads, crashes, mf, notPipe>>

(***************************************************************************)
(* 2b.rerun_download_failures.py                                           *)
(***************************************************************************)
\* lines 140-153: the integers among the comma-separated parts
parse_failed_positions(cell) ==
    {d \in 0..9 : \E k \in 1..Len(str_cell(cell)) : str_cell(cell)[k] = Digits[d + 1]}

download_worklist == IF exists(DOWNLOAD_FAIL_OUT) THEN read_csv(DOWNLOAD_FAIL_OUT) ELSE <<>>

\* lines 255-268.  With no worklist the script returns at once.
Launch2b ==
    /\ script = "2b" /\ proc[0].pc = "idle"
    /\ IF download_worklist = <<>>
       THEN proc' = [proc EXCEPT ![0].pc = "finished"]
       ELSE proc' = [proc EXCEPT ![0] = [pc |-> "running",
                                         done |-> load_done_row_indices(DL_FIX),
                                         pos |-> 0]]
    /\ UNCHANGED <<fs, script, downloads, crashes, mf, notPipe>>

\* lines 280-329: the record of one row of the worklist and the files written
redownload_item(row, goto_ok, reads, listing) ==
    LET app_no == row.application_number
        original_urls_str == str_cell(row.observation_urls)
        original_urls == IF original_urls_str = <<>> THEN <<>> ELSE split(original_urls_str)
        failed_positions == parse_failed_positions(row.failed_positions)
        record == Row(row.worker_id, row.row_index, app_no, 0, FALSE,
                      Len(original_urls), original_urls_str, <<>>)
        got == crawl_and_redownload_failed_positions(listing, app_no, original_urls,
                                                     failed_positions, downloads)
    IN  IF failed_positions = {} \/ Len(original_urls) = 0
        THEN [record |-> record, files |-> downloads]
        ELSE IF ~goto_ok
        THEN [record |-> [record EXCEPT !.error = GotoError], files |-> downloads]
        ELSE IF page_has_no_records(reads)
        THEN [record |-> [record EXCEPT !.no_record_found = 1], files |-> downloads]
        ELSE IF got.raised
        THEN [record |-> [record EXCEPT !.error = ClickError], files |-> got.files]
        ELSE [record |-> [record EXCEPT !.n_observation_letters = Len(got.urls),
                                        !.has_third_party_observation = Len(got.urls) > 0,
                                        !.observation_urls = join(got.urls)],
              files |-> got.files]

\* lines 275-333: one turn of the loop
Item2b ==
    /\ script = "2b" /\ proc[0].pc = "running"
    /\ proc[0].pos < Len(download_worklist)
    /\ LET row == download_worklist[proc[0].pos + 1]
       IN  IF row.row_index \in proc[0].done
           THEN /\ UNCHANGED <<fs, downloads>>
                /\ proc' = [proc EXCEPT ![0].pos = @ + 1]
           ELSE /\ \E v \in Visits :
                      LET it == redownload_item(row, v.goto_ok, v.reads, v.listing)
                      IN  /\ fs' = append_record(DL_FIX, it.record)
                          /\ downloads' = it.files
                /\ proc' = [proc EXCEPT ![0].pos = @ + 1,
                                        ![0].done = @ \cup {row.row_index}]
    /\ UNCHANGED <<script, crashes, mf, notPipe>>

\* lines 335-341, and 3a.merge_outputs.py is started
Finish2b ==
    /\ script = "2b"
    /\ \/ proc[0].pc = "finished"
       \/ proc[0].pc = "running" /\ proc[0].pos >= Len(download_worklist)
    /\ script' = "3a"
    /\ mpc' = "load"
    /\ proc' = Reset
    /\ UNCHANGED <<fs, downloads, crashes, frame, notPipe>>

(***************************************************************************)
(* 3b.remaining_failures.py and 3e.remaining_failures_again.py             *)
(***************************************************************************)
ROUND2_CSV == <<"rerun_download_failures_round2", 0>>
ROUND3_CSV == <<"rerun_download_failures_round3", 0>>

\* 3b lines 15-18 (3e lines 11-14): the rows that still hold the sentinel
remaining(df) ==
    SelectSeq(df, LAMBDA row : Contains(str_cell(row.observation_urls), DOWNLOAD_FAILED))

\* 3b, run on the output of 3a; the round-2 workers come next
Remaining3b ==
    /\ script = "3a" /\ mpc = "done"
    /\ fs' = to_csv(fs, ROUND2_CSV, remaining(read_csv(MERGED)))
    /\ script' = "3c"
    /\ mpc' = "" /\ frame' = <<>>
    /\ UNCHANGED <<proc, downloads, crashes, notPipe>>

\* 3e, run on the output of 3d; the round-3 workers come next
Remaining3e ==
    /\ script = "3d" /\ mpc = "done"
    /\ fs' = to_csv(fs, ROUND3_CSV, remaining(read_csv(MERGED_V2)))
    /\ script' = "3f"
    /\ mpc' = "" /\ frame' = <<>>
    /\ UNCHANGED <<proc, downloads, crashes, notPipe>>

(***************************************************************************)
(* 3c.rerun_download_failures_parallel.py and                              *)
(* 3f.rerun_download_failures_round3.py                                    *)
(***************************************************************************)
ROUND3_WORKER(i) == <<"rerun_download_failures_round3_worker", i>>

INPUT(s) == IF s = "3c" THEN ROUND2_CSV ELSE ROUND3_CSV
OUT(s, w) == IF s = "3c" THEN ROUND2_WORKER(w) ELSE ROUND3_WORKER(w)

\* 3c lines 87-94 (3f lines 55-60): no ledger is read at the start;
\* pd.read_csv raises when the worklist file is missing
RoundLaunch(w) ==
    /\ script \in {"3c", "3f"} /\ proc[w].pc = "idle"
    /\ IF exists(INPUT(script))
       THEN proc' = [proc EXCEPT ![w] =
                        [pc |-> "running", done |-> {},
                         pos |-> start(Len(read_csv(INPUT(script))), N_WORKERS, w)]]
       ELSE proc' = [proc EXCEPT ![w].pc = "raised"]
    /\ UNCHANGED <<fs, script, downloads, crashes, mf, notPipe>>

\* 3c lines 106-145 (3f lines 69-104): one turn of the loop
RoundItem(w) ==
    /\ script \in {"3c", "3f"} /\ proc[w].pc = "running"
    /\ proc[w].pos < end(Len(read_csv(INPUT(script))), N_WORKERS, w)
    /\ LET record == read_csv(INPUT(script))[proc[w].pos + 1]
           app_no == record.application_number
           urls == split(record.observation_urls)
       IN  \E v \in Visits :
              LET got == round2_refetch(v.goto_ok, v.listing[1].icons, app_no, urls, downloads)
              IN  /\ fs' = append_record(OUT(script, w),
                                         [record EXCEPT !.observation_urls = join(got.urls)])
                  /\ downloads' = got.files
    /\ proc' = [proc EXCEPT ![w].pos = @ + 1]
    /\ UNCHANGED <<script, crashes, mf, notPipe>>

\* 3c line 147 (3f line 106)
RoundFinish(w) ==
    /\ script \in {"3c", "3f"} /\ proc[w].pc = "running"
    /\ proc[w].pos >= end(Len(read_csv(INPUT(script))), N_WORKERS, w)
    /\ proc' = [proc EXCEPT ![w].pc = "finished"]
    /\ UNCHANGED <<fs, script, downloads, crashes, mf, notPipe>>

\* 3d.merge_outputs_again.py is started once every round-2 worker has finished
Start3d ==
    /\ script = "3c" /\ AllFinished
    /\ script' = "3d"
    /\ mpc' = "load"
    /\ proc' = Reset
    /\ UNCHANGED <<fs, downloads, crashes, frame, notPipe>>

PipeNext ==
    \/ \E w \in DOMAIN proc : HarvestLaunch(w)
    \/ \E w \in DOMAIN proc : HarvestItem(w)
    \/ \E w \in DOMAIN proc : HarvestFinish(w)
    \/ \E w \in DOMAIN proc : Kill(w)
    \/ CollectFailures
    \/ Launch2a \/ Item2a \/ Finish2a
    \/ Launch2b \/ Item2b \/ Finish2b
    \/ Load3a \/ PageOverride3a \/ DlPatch3a \/ Write3a
    \/ Remaining3b
    \/ \E w \in DOMAIN proc : RoundLaunch(w)
    \/ \E w \in DOMAIN proc : RoundItem(w)
    \/ \E w \in DOMAIN proc : RoundFinish(w)
    \/ Start3d
    \/ Load3d \/ Merge3d \/ Write3d
    \/ Remaining3e

Spec == PipeInit /\ [][PipeNext]_vars

\* ---- the pipeline claims -----------------------------------------------
RowIndices(f) == {RowsOf(f)[i].row_index : i \in 1..Len(RowsOf(f))}

NoDuplicate(f) ==
    \A i, j \in 1..Len(RowsOf(f)) : RowsOf(f)[i].row_index = RowsOf(f)[j].row_index => i = j

HarvestComplete(w) == script # "0.scrape" \/ proc[w].pc = "finished"

\* C1: whatever kills and relaunches happened, the ledger of a harvest
\* worker never holds two rows of one row_index nor a row of another shard,
\* and once the worker has completed it holds every row_index of the shard.
IdempotentResume ==
    \A w \in DOMAIN proc :
        /\ NoDuplicate(WORKERS(w))
        /\ RowIndices(WORKERS(w)) \subseteq df_chunk(w)
        /\ HarvestComplete(w) => RowIndices(WORKERS(w)) = df_chunk(w)

\* a worker was relaunched on a ledger that held a row of its shard and
\* has completed the shard of two items
IdempotentResumeWitness ==
    /\ script = "0.scrape" /\ crashes = 1
    /\ \E w \in DOMAIN proc :
          /\ proc[w].pc = "finished"
          /\ proc[w].done # {}
          /\ Cardinality(df_chunk(w)) = 2
          /\ Len(RowsOf(WORKERS(w))) = 2

\* the number of positions of a cell: none when empty, else one more than
\* the separators
Positions(cell) ==
    IF cell = <<>> THEN 0 ELSE 1 + Cardinality({k \in 1..Len(cell) : cell[k] = SEP})

HarvestLedgers == {WORKERS(w) : w \in DOMAIN proc} \cup {PAGE_FIX}

RoundLedgers == {ROUND2_WORKER(w) : w \in DOMAIN proc} \cup {ROUND3_WORKER(w) : w \in DOMAIN proc}

Ledgers == HarvestLedgers \cup {DL_FIX} \cup RoundLedgers

\* C3: in every row of every ledger, of the harvest, of the page-level
\* re-harvest and of the download-retry rounds 1, 2 and 3,
\* n_observation_letters is the number of positions of observation_urls.
CountPositionInvariant ==
    \A f \in Ledgers : \A i \in 1..Len(RowsOf(f)) :
        RowsOf(f)[i].n_observation_letters = Positions(RowsOf(f)[i].observation_urls)

\* a row of round 3 with two positions, one resolved and one still failed
CountPositionWitness ==
    \E w \in DOMAIN proc : \E i \in 1..Len(RowsOf(ROUND3_WORKER(w))) :
        LET row == RowsOf(ROUND3_WORKER(w))[i]
        IN  /\ row.n_observation_letters = 2
            /\ Contains(row.observation_urls, DOWNLOAD_FAILED)
            /\ \E u \in 1..Len(DocUrls) : Contains(row.observation_urls, DocUrls[u])

FailureFree(row) ==
    /\ row.n_observation_letters = 0
    /\ row.observation_urls = <<>>
    /\ row.error = <<>>

\* C10, as stated: every row with no_record_found = 1, in every pass, has
\* count 0, an empty observation_urls and an empty error.
NoRecordsFailureFree ==
    \A f \in Ledgers : \A i \in 1..Len(RowsOf(f)) :
        RowsOf(f)[i].no_record_found = 1 => FailureFree(RowsOf(f)[i])

\* C10, amended: a row with no_record_found = 1 has an empty error; in the
\* harvest and the page-level re-harvest it has count 0 and an empty
\* observation_urls; in the targeted download retry (2b) it keeps the
\* observation_urls of its worklist row and their count; rounds 2 and 3
\* write no such row.
NoRecordsByPass ==
    /\ \A f \in HarvestLedgers : \A i \in 1..Len(RowsOf(f)) :
          RowsOf(f)[i].no_record_found = 1 => FailureFree(RowsOf(f)[i])
    /\ \A i \in 1..Len(RowsOf(DL_FIX)) :
          LET row == RowsOf(DL_FIX)[i]
          IN  row.no_record_found = 1 =>
                 /\ row.error = <<>>
                 /\ row.n_observation_letters = Positions(row.observation_urls)
                 /\ \E k \in 1..Len(download_worklist) :
                       /\ download_worklist[k].row_index = row.row_index
                       /\ download_worklist[k].observation_urls = row.observation_urls
    /\ \A f \in RoundLedgers : \A i \in 1..Len(RowsOf(f)) : RowsOf(f)[i].no_record_found = 0

\* no_record_found = 1 was written by the harvest and by 2b
NoRecordsByPassWitness ==
    /\ \E w \in DOMAIN proc : \E i \in 1..Len(RowsOf(WORKERS(w))) :
          RowsOf(WORKERS(w))[i].no_record_found = 1
    /\ \E i \in 1..Len(RowsOf(DL_FIX)) :
          /\ RowsOf(DL_FIX)[i].no_record_found = 1
          /\ RowsOf(DL_FIX)[i].n_observation_letters = 2

\* the row_index values of the items the loop of a harvest worker has gone
\* past since its launch
PassedHarvest(w) ==
    {df_index[p + 1] : p \in start(total, N_WORKERS, w)..(proc[w].pos - 1)}

Passed2a == {page_worklist[p].row_index : p \in 1..proc[0].pos}

PageWorklistIds == {page_worklist[p].row_index : p \in 1..Len(page_worklist)}

DownloadWorklistIds == {download_worklist[p].row_index : p \in 1..Len(download_worklist)}

\* C16: whatever kills and relaunches happened, the ledger of 2a and the
\* ledger of 2b never hold two rows of one row_index nor a row that is not
\* of the worklist, and once the round has completed its ledger holds
\* every row_index of its worklist.
ResumeSafeRound1 ==
    /\ NoDuplicate(PAGE_FIX) /\ NoDuplicate(DL_FIX)
    /\ RowIndices(PAGE_FIX) \subseteq PageWorklistIds
    /\ RowIndices(DL_FIX) \subseteq DownloadWorklistIds
    /\ script \notin {"0.scrape", "2a"} => RowIndices(PAGE_FIX) = PageWorklistIds
    /\ script \notin {"0.scrape", "2a", "2b"} => RowIndices(DL_FIX) = DownloadWorklistIds

\* 2b was relaunched on a ledger that holds the first of the two rows of
\* its worklist
ResumeSafeRound1Witness ==
    /\ script = "2b" /\ crashes = 1
    /\ proc[0].pc = "running" /\ proc[0].pos = 0
    /\ Len(download_worklist) = 2
    /\ proc[0].done = {download_worklist[1].row_index}

(***************************************************************************)
(* 1.collect_failures.py, run on worker ledgers drawn from a small set of  *)
(* rows: any error text with any list of positions.                        *)
(***************************************************************************)
MaxLedgerRows == 2
ClassifyUrls == {<<>>, <<"url1">>, <<"url1", SEP, DOWNLOAD_FAILED>>,
                 <<DOWNLOAD_FAILED, SEP, "url2", SEP, DOWNLOAD_FAILED>>}

ClassifyRows(w, ids) ==
    {Row(w, r, AppNos[1], 0, u # <<>>, IF u = <<>> THEN 0 ELSE Len(split(u)), u, err) :
        r \in ids, u \in ClassifyUrls, err \in {<<>>, GotoError, ClickError}}

ClassifyInit ==
    /\ PartIdle /\ CrawlIdle /\ PipeIdle
    /\ mpc = "" /\ frame = <<>>
    /\ script = "0.scrape"
    /\ \E w0 \in Maybe(WORKERS(0), {df \in SeqsUpTo(ClassifyRows(0, {5, 6}), MaxLedgerRows) :
                                      UniqueIndex(df)}),
          w1 \in Maybe(WORKERS(1), SeqsUpTo(ClassifyRows(1, {7}), 1)) :
          fs = w0 @@ w1

ClassifyNext == CollectFailures

SpecClassify == ClassifyInit /\ [][ClassifyNext]_vars

\* ---- the classifier claims ---------------------------------------------
Classified == script = "2a"

LedgerRows == RowsOf(WORKERS(0)) \o RowsOf(WORKERS(1))

InPageList(row) ==
    \E k \in 1..Len(RowsOf(PAGE_FAIL_OUT)) : RowsOf(PAGE_FAIL_OUT)[k].row_index = row.row_index

InDownloadList(row) ==
    \E k \in 1..Len(RowsOf(DOWNLOAD_FAIL_OUT)) :
        RowsOf(DOWNLOAD_FAIL_OUT)[k].row_index = row.row_index

\* C12: once the classifier has run, every ledger entry with a non-empty
\* error is in the page-failure list.
ClassifierComplete ==
    Classified =>
        \A i \in 1..Len(LedgerRows) : LedgerRows[i].error # <<>> => InPageList(LedgerRows[i])

\* C13: once the classifier has run, no ledger entry is in both lists, and
\* each list holds an entry at most once.
ClassifierExclusive ==
    Classified =>
        /\ \A i \in 1..Len(LedgerRows) :
              ~(InPageList(LedgerRows[i]) /\ InDownloadList(LedgerRows[i]))
        /\ NoDuplicate(PAGE_FAIL_OUT) /\ NoDuplicate(DOWNLOAD_FAIL_OUT)

\* an entry with a navigation error whose list holds the sentinel went to
\* the page-failure list only
ClassifierExclusiveWitness ==
    /\ Classified
    /\ \E i \in 1..Len(LedgerRows) :
          /\ Contains(LedgerRows[i].error, PAGE_GOTO)
          /\ Contains(LedgerRows[i].observation_urls, DOWNLOAD_FAILED)
          /\ InPageList(LedgerRows[i])
    /\ RowsOf(DOWNLOAD_FAIL_OUT) # <<>>

\* C14: every row of the download-failure list comes from a ledger entry
\* whose observation_urls it carries unchanged, and its failed_positions,
\* as 2b parses them, are exactly the 0-based indices of the positions that
\* hold DOWNLOAD_FAILED, at least one.
ExactFailedIndices ==
    Classified =>
        \A k \in 1..Len(RowsOf(DOWNLOAD_FAIL_OUT)) :
            LET item == RowsOf(DOWNLOAD_FAIL_OUT)[k]
            IN  \E i \in 1..Len(LedgerRows) :
                   /\ LedgerRows[i].row_index = item.row_index
                   /\ item.observation_urls = LedgerRows[i].observation_urls
                   /\ parse_failed_positions(item.failed_positions)
                         = FailedIndices(split(LedgerRows[i].observation_urls))
                   /\ parse_failed_positions(item.failed_positions) # {}

\* the first and the third of three positions failed
ExactFailedIndicesWitness ==
    /\ Classified
    /\ \E k \in 1..Len(RowsOf(DOWNLOAD_FAIL_OUT)) :
          /\ RowsOf(DOWNLOAD_FAIL_OUT)[k].failed_positions = <<"0", ",", "2">>
          /\ RowsOf(DOWNLOAD_FAIL_OUT)[k].observation_urls
                = <<DOWNLOAD_FAILED, SEP, "url2", SEP, DOWNLOAD_FAILED>>

(***************************************************************************)
(* The workers of round 2 (3c) and round 3 (3f), run on a worklist drawn   *)
(* from a small set of rows, or on none, and stopped between two appends.  *)
(***************************************************************************)
MaxRoundRows == 2

RoundRows ==
    {Row(0, r, AppNos[r - 4], 0, TRUE, Positions(u), u, <<>>) :
        r \in MergeRowIds, u \in {<<DOWNLOAD_FAILED>>, <<OLD_URL, SEP, DOWNLOAD_FAILED>>}}

RoundInit ==
    /\ CrawlIdle
    /\ mpc = "" /\ frame = <<>>
    /\ total = 0 /\ chunks = <<>>
    /\ N_WORKERS \in 1..MaxPipeWorkers
    /\ script \in {"3c", "3f"}
    /\ \/ fs = <<>>
       \/ \E df \in SeqsUpTo(RoundRows, MaxRoundRows) :
             UniqueIndex(df) /\ fs = (INPUT(script) :> File(df))
    /\ downloads = {} /\ crashes = 0
    /\ proc = [w \in 0..(N_WORKERS - 1) |-> Idle]

\* the worker is stopped between two appends; it can be launched again with
\* the same arguments
RoundKill(w) ==
    /\ script \in {"3c", "3f"}
    /\ proc[w].pc = "running"
    /\ crashes < MaxCrashes
    /\ crashes' = crashes + 1
    /\ proc' = [proc EXCEPT ![w] = Idle]
    /\ UNCHANGED <<fs, script, downloads, mf, notPipe>>

RoundNext ==
    \/ \E w \in DOMAIN proc : RoundLaunch(w)
    \/ \E w \in DOMAIN proc : RoundItem(w)
    \/ \E w \in DOMAIN proc : RoundFinish(w)
    \/ \E w \in DOMAIN proc : RoundKill(w)

SpecRound == RoundInit /\ [][RoundNext]_vars

\* ---- the claims on rounds 2 and 3 ---------------------------------------
\* C17: a pass that is stopped and launched again with the same arguments
\* never appends a second row for a row_index its ledger already holds;
\* here for the workers of rounds 2 and 3.
EveryPassResumable ==
    \A w \in DOMAIN proc : NoDuplicate(ROUND2_WORKER(w)) /\ NoDuplicate(ROUND3_WORKER(w))

\* C20: a round-2 or round-3 worker whose worklist file is missing or has
\* no row appends nothing and does not raise.
NoWorklistNothingToDo ==
    (script \in {"3c", "3f"} /\ (~exists(INPUT(script)) \/ RowsOf(INPUT(script)) = <<>>)) =>
        \A w \in DOMAIN proc :
            /\ proc[w].pc # "raised"
            /\ RowsOf(OUT(script, w)) = <<>>

(***************************************************************************)
(* The claims on the ledgers of the passes, step by step.                  *)
(***************************************************************************)
IsPrefix(s, t) == Len(s) <= Len(t) /\ SubSeq(t, 1, Len(s)) = s

\* what one step does to the ledger f: nothing, or one row more at the end
\* of a file that keeps its one header line
AppendOrNothing(f) ==
    IF f \in DOMAIN fs
    THEN /\ f \in DOMAIN fs'
         /\ fs'[f].header = fs[f].header
         /\ IsPrefix(fs[f].rows, fs'[f].rows)
         /\ Len(fs'[f].rows) <= Len(fs[f].rows) + 1
    ELSE f \in DOMAIN fs' => fs'[f].header = 1 /\ Len(fs'[f].rows) = 1

\* C21: in every step of the pipeline, kills and relaunches included, every
\* ledger of every pass is left as it was or gets exactly one row more at
\* its end; the header is written with the first row only, and no row
\* already written is changed or removed.
AppendOnlyLedger == [][\A f \in Ledgers : AppendOrNothing(f)]_vars

\* a harvest worker that was killed and launched again has appended a
\* second row to the ledger that held one
AppendOnlyLedgerWitness ==
    /\ script = "0.scrape" /\ crashes = 1
    /\ \E w \in DOMAIN proc :
          /\ proc[w].pc = "running" /\ proc[w].done # {}
          /\ Len(RowsOf(WORKERS(w))) = 2
          /\ fs[WORKERS(w)].header = 1

(***************************************************************************)
(* The claims on the harvest workers run side by side.                     *)
(***************************************************************************)
\* the labels of the shard of worker w, in the order of its loop
ShardSeq(w) == SubSeq(df_index, start(total, N_WORKERS, w) + 1, end(total, N_WORKERS, w))

\* the records worker w can append for the row idx when it runs alone
AloneRecords(w, idx) ==
    {harvest_item(w, idx, v.goto_ok, v.reads, v.listing).record : v \in Visits}

\* the ledger of w holds what w alone would have written so far
AsIfAlone(w) ==
    LET rows == RowsOf(WORKERS(w))
    IN  /\ IsPrefix(index(rows), ShardSeq(w))
        /\ \A i \in 1..Len(rows) : rows[i] \in AloneRecords(w, rows[i].row_index)
        /\ HarvestComplete(w) => index(rows) = ShardSeq(w)

\* a step that changes the ledger of w is a step of the harvest, of worker
\* w and of no other
OnlyOwnLedger ==
    \A w \in DOMAIN proc :
        RowsOf(WORKERS(w))' # RowsOf(WORKERS(w)) =>
            /\ script = "0.scrape"
            /\ proc'[w] # proc[w]
            /\ \A v \in DOMAIN proc \ {w} : proc'[v] = proc[v]

\* C23: with N harvest workers of distinct ids interleaved in any way, kills
\* and relaunches included, the ledger of worker w is changed by steps of w
\* only and by no step after the harvest, holds at every moment of the
\* harvest (and at its end, in full) the rows w alone would have written
\* for its shard, and shares no row_index with the ledger of another worker.
WorkerIsolation ==
    /\ [](script = "0.scrape" => \A w \in DOMAIN proc : AsIfAlone(w))
    /\ [](\A w, v \in DOMAIN proc :
             w # v => RowIndices(WORKERS(w)) \cap RowIndices(WORKERS(v)) = {})
    /\ [][OnlyOwnLedger]_vars

\* two workers have completed their shards, one of them after a kill and a
\* relaunch, each with a row in its own ledger
WorkerIsolationWitness ==
    /\ script = "0.scrape" /\ N_WORKERS = 2 /\ crashes = 1
    /\ \A w \in DOMAIN proc :
          /\ proc[w].pc = "finished"
          /\ Len(RowsOf(WORKERS(w))) = 1
          /\ RowsOf(WORKERS(w))[1].worker_id = w

(***************************************************************************)
(* The claims on the entries of the harvest passes.                        *)
(***************************************************************************)
\* C24: in the ledgers of the harvest and of the page-level re-harvest, an
\* entry with an error has no_record_found = 0, n_observation_letters = 0,
\* no observation flag and an empty observation_urls, also when the
\* pagination raised after an artifact of the item had been saved.
FailureEntriesCarryNoPositions ==
    \A f \in HarvestLedgers : \A i \in 1..Len(RowsOf(f)) :
        RowsOf(f)[i].error # <<>> =>
            /\ RowsOf(f)[i].no_record_found = 0
            /\ RowsOf(f)[i].n_observation_letters = 0
            /\ RowsOf(f)[i].has_third_party_observation = FALSE
            /\ RowsOf(f)[i].observation_urls = <<>>

\* the harvest has written an entry whose error is that of the pagination
\* click, and the first artifact of that item is in the downloads directory
FailureEntriesCarryNoPositionsWitness ==
    \E w \in DOMAIN proc : \E i \in 1..Len(RowsOf(WORKERS(w))) :
        /\ RowsOf(WORKERS(w))[i].error = ClickError
        /\ out_file(RowsOf(WORKERS(w))[i].application_number, 1) \in downloads
        /\ script = "0.scrape"

(***************************************************************************)
(* The Pagination Crawler step by step: extract_all_pages_observations of  *)
(* 0.scrape.py and 2a as a process that handles the icons of the page      *)
(* shown and then the Next control.  ret holds its local state.            *)
(***************************************************************************)
MaxCrawlPages == 3

PagingListings == ListingsOver({"popup", "fail"}, MaxCrawlPages, 1)

next_is_disabled_OnlyAbsent(pg) == pg.next = "absent"

\* 2a lines 127-132 (0.scrape.py lines 154-160): no Next control, or one
\* whose class holds "disabled"
next_is_disabled(pg) == pg.next \in {"absent", "disabled"}

PagingInit ==
    /\ PartIdle /\ MergeIdle /\ PipeIdle
    /\ \E l \in PagingListings, ps \in {"0.scrape", "2a"},
          f \in SUBSET {out_file(CrawlApp, k) : k \in 1..MaxFiles} :
          /\ ps = "0.scrape" => f = {}
          /\ call = [fn |-> "crawler", pass |-> ps, listing |-> l, files |-> f]
          /\ ret = [urls |-> <<>>, files |-> f, raised |-> FALSE, pc |-> "icons",
                    page |-> 1, visited |-> <<>>, clicks |-> <<>>]

\* 0.scrape.py lines 124-151 (2a lines 144-180): the icons of the page shown
VisitPage ==
    /\ call.fn = "crawler" /\ ret.pc = "icons"
    /\ ret' = [page_icons(ret, call.listing, ret.page, 1, CrawlApp, call.pass)
                  EXCEPT !.visited = Append(@, ret.page), !.pc = "next"]
    /\ UNCHANGED <<call, notCrawl>>

\* 0.scrape.py lines 153-164 (2a lines 182-192): the Next control is read;
\* the loop ends, or the control is clicked.  A click shows the next page
\* when there is one.
Paginate ==
    /\ call.fn = "crawler" /\ ret.pc = "next"
    /\ ret' = IF call.listing[ret.page].next = "raises"
              THEN [ret EXCEPT !.raised = TRUE, !.pc = "raised"]
              ELSE IF next_is_disabled(call.listing[ret.page])
              THEN [ret EXCEPT !.pc = "done"]
              ELSE [ret EXCEPT !.clicks = Append(@, ret.page),
                               !.page = IF @ < Len(call.listing) THEN @ + 1 ELSE @,
                               !.pc = "icons"]
    /\ UNCHANGED <<call, notCrawl>>

PagingNext == VisitPage \/ Paginate

\* the crawler is one sequential loop of a running process, and each of its
\* browser calls returns or raises within its timeout
SpecPaging == PagingInit /\ [][PagingNext]_vars /\ WF_vars(PagingNext)

\* ---- the claim on the crawler's pages -----------------------------------
\* the listing has its Next control absent or disabled on the last page and
\* clickable on every page before it
Regular(listing) == listing[Len(listing)].next \in {"absent", "disabled"}

UpTo(n) == [k \in 1..n |-> k]

\* C27: on a listing of P pages whose Next control is absent or disabled on
\* the last page only, the crawler visits the pages 1..P in order, each
\* once, clicks Next on the pages 1..P-1 only, and in the end returns, with
\* the list the whole function returns.
CrawlerTermination ==
    /\ [](Regular(call.listing) =>
             /\ IsPrefix(ret.visited, UpTo(Len(call.listing)))
             /\ IsPrefix(ret.clicks, UpTo(Len(call.listing) - 1)))
    /\ Regular(call.listing) ~>
          /\ ret.pc = "done"
          /\ ret.visited = UpTo(Len(call.listing))
          /\ ret.clicks = UpTo(Len(call.listing) - 1)
          /\ ret.urls = extract_all_pages_observations(call.listing, CrawlApp,
                                                       call.files, call.pass).urls

\* the crawler has returned from a listing of three pages
CrawlerTerminationWitness ==
    /\ call.fn = "crawler" /\ ret.pc = "done"
    /\ Len(call.listing) = MaxCrawlPages
    /\ call.listing[MaxCrawlPages].next = "disabled"
    /\ ret.visited = <<1, 2, 3>> /\ ret.clicks = <<1, 2>>
    /\ Len(ret.urls) = 3

(***************************************************************************)
(* The two merge scripts run one after the other, and again, on the        *)
(* ledgers of the harvest, of the page-level re-harvest and of rounds 1    *)
(* and 2 of the download retry.                                            *)
(***************************************************************************)
MaxRunRows == 2

RunsInit ==
    /\ PartIdle /\ CrawlIdle /\ PipeIdle
    /\ script = "3a" /\ mpc = "load" /\ frame = <<>>
    /\ \E w0 \in Maybe(WORKERS(0), {df \in SeqsUpTo(BaseRows, MaxRunRows) : UniqueIndex(df)}) \ {<<>>},
          pf \in Maybe(PAGE_FIX, SeqsUpTo(PageRows, 1)),
          dl \in Maybe(DL_FIX, SeqsUpTo(PatchRows, 1)),
          r0 \in Maybe(ROUND2_WORKER(0), SeqsUpTo(PatchRows, MaxRunRows)),
          r1 \in Maybe(ROUND2_WORKER(1), SeqsUpTo(PatchRows, 1)) :
          fs = w0 @@ pf @@ dl @@ r0 @@ r1

\* a merge script has ended and one of the two is started: 3d after 3a, or
\* either of them once more
RunAgain ==
    /\ mpc = "done"
    /\ script' \in {"3a", "3d"}
    /\ mpc' = "load"
    /\ frame' = <<>>
    /\ UNCHANGED <<fs, notMerge>>

RunsNext == MergeNext \/ RunAgain

SpecMergeRuns == RunsInit /\ [][RunsNext]_vars

\* ---- the claims on the merges run in sequence ---------------------------
Round1Input == RowsOf(DL_FIX)

\* the positions the row_index r must hold after 3a and 3d: those of its
\* last round-2 row, else of its last round-1 row, else of its row in the
\* base (page-level re-harvest row, else first base row)
BaseRowAt(r) ==
    IF InIndex(RowsOf(PAGE_FIX), r) THEN FirstAt(RowsOf(PAGE_FIX), r)
    ELSE FirstAt(BaseInput, r)

HighestPriorityUrls(r) ==
    IF InIndex(Round2Input, r) THEN LastAt(Round2Input, r).observation_urls
    ELSE IF InIndex(Round1Input, r) THEN LastAt(Round1Input, r).observation_urls
    ELSE BaseRowAt(r).observation_urls

\* C22: after 3a and then 3d, a row_index of the base holds the positions of
\* the highest-priority ledger that carries it (base, then round 1, then
\* round 2); with rows of rounds 1 and 2 it holds the round-2 positions, and
\* among the round-2 worker files the one applied last.
LaterRoundsWin ==
    Done3d =>
        \A r \in MergeRowIds :
            InIndex(BaseInput, r) =>
                /\ Len(RowsAt(RowsOf(MERGED_V2), r)) = 1
                /\ FirstAt(RowsOf(MERGED_V2), r).observation_urls = HighestPriorityUrls(r)

\* the row_index 5 is in the base, in round 1 and in both worker files of
\* round 2, each with other positions than the one before; 6 is in the base
\* and in round 1 only
LaterRoundsWinWitness ==
    /\ Done3d
    /\ InIndex(BaseInput, 5) /\ InIndex(Round1Input, 5)
    /\ InIndex(RowsOf(ROUND2_WORKER(0)), 5) /\ InIndex(RowsOf(ROUND2_WORKER(1)), 5)
    /\ LastAt(Round1Input, 5).observation_urls # LastAt(Round2Input, 5).observation_urls
    /\ LastAt(RowsOf(ROUND2_WORKER(0)), 5).observation_urls
          # LastAt(RowsOf(ROUND2_WORKER(1)), 5).observation_urls
    /\ FirstAt(RowsOf(MERGED), 5).observation_urls = LastAt(Round1Input, 5).observation_urls
    /\ InIndex(BaseInput, 6) /\ ~InIndex(Round2Input, 6)

\* the files a merge script reads, and the file it writes
InputsOf(s) ==
    IF s = "3a"
    THEN {WORKERS(i) : i \in 0..(N_WORKER_FILES - 1)} \cup {PAGE_FIX, DL_FIX}
    ELSE {ROUND2_WORKER(i) : i \in 0..(N_ROUND2_FILES - 1)} \cup {MERGED}

OutputOf(s) == IF s = "3a" THEN MERGED ELSE MERGED_V2

\* no step of a merge script creates, removes or changes one of its inputs
InputsUntouched ==
    \A f \in InputsOf(script) :
        /\ (f \in DOMAIN fs') <=> (f \in DOMAIN fs)
        /\ f \in DOMAIN fs => fs'[f] = fs[f]

\* the write of a script whose output is there from an earlier run
RewriteIsIdentical ==
    (mpc = "write" /\ mpc' = "done" /\ exists(OutputOf(script))) => fs' = fs

CanonicalCountPosition ==
    \A f \in {MERGED, MERGED_V2} : \A i \in 1..Len(RowsOf(f)) :
        RowsOf(f)[i].n_observation_letters = Positions(RowsOf(f)[i].observation_urls)

\* a row of the dataset of 3d with two positions that rounds 1 and 2 have
\* both patched: no position of it is failed any more
CanonicalCountPositionWitness ==
    \E i \in 1..Len(RowsOf(MERGED_V2)) :
        LET row == RowsOf(MERGED_V2)[i]
        IN  /\ row.n_observation_letters = 2
            /\ InIndex(RowsOf(DL_FIX), row.row_index)
            /\ \E w \in DOMAIN proc : InIndex(RowsOf(ROUND2_WORKER(w)), row.row_index)
            /\ ~Contains(row.observation_urls, DOWNLOAD_FAILED)
            /\ FirstAt(RowsOf(MERGED), row.row_index).observation_urls # row.observation_urls

\* ---- the claims on the retry rounds of the pipeline ----------------------
\* the list new has the length of old and holds old's value at every
\* position that is not failed in old
Keeps(old, new) ==
    /\ Len(split(new)) = Len(split(old))
    /\ \A k \in 1..Len(split(old)) :
          split(old)[k] # DOWNLOAD_FAILED => split(new)[k] = split(old)[k]

\* the rows of f, each with the row of the same row_index in df
KeepsAll(df, f) ==
    \A i \in 1..Len(RowsOf(f)) :
        InIndex(df, RowsOf(f)[i].row_index) =>
            Keeps(FirstAt(df, RowsOf(f)[i].row_index).observation_urls,
                  RowsOf(f)[i].observation_urls)

\* C31: a position that is not failed is never changed by an artifact-level
\* round or by the merge that applies it, so the failed positions of a row
\* never grow: round 1 and 3a against the harvest row, round 2 and 3d
\* against the row of the first merge, round 3 against the row of the
\* second merge.
ResolvedStaysResolved ==
    /\ KeepsAll(BaseInput, DL_FIX)
    /\ \A i \in 1..Len(RowsOf(MERGED)) :
          (/\ InIndex(BaseInput, RowsOf(MERGED)[i].row_index)
           /\ ~InIndex(RowsOf(PAGE_FIX), RowsOf(MERGED)[i].row_index))
          => Keeps(FirstAt(BaseInput, RowsOf(MERGED)[i].row_index).observation_urls,
                   RowsOf(MERGED)[i].observation_urls)
    /\ \A w \in DOMAIN proc : KeepsAll(RowsOf(MERGED), ROUND2_WORKER(w))
    /\ KeepsAll(RowsOf(MERGED), MERGED_V2)
    /\ \A w \in DOMAIN proc : KeepsAll(RowsOf(MERGED_V2), ROUND3_WORKER(w))

\* a row of two positions: the second was resolved by the harvest, the first
\* failed in the harvest and in round 1 and was resolved by round 2; the
\* second merge holds both
ResolvedStaysResolvedWitness ==
    \E i \in 1..Len(RowsOf(MERGED_V2)) :
        LET row == RowsOf(MERGED_V2)[i]
            base == FirstAt(BaseInput, row.row_index).observation_urls
            first == FirstAt(RowsOf(MERGED), row.row_index).observation_urls
        IN  /\ Len(split(row.observation_urls)) = 2
            /\ InIndex(BaseInput, row.row_index)
            /\ Len(split(base)) = 2
            /\ split(base)[1] = DOWNLOAD_FAILED /\ split(base)[2] # DOWNLOAD_FAILED
            /\ split(first)[1] = DOWNLOAD_FAILED
            /\ ~Contains(row.observation_urls, DOWNLOAD_FAILED)
            /\ split(row.observation_urls)[2] = split(base)[2]

\* C32: once 3b has run on the first merge, every row of the merged dataset
\* with a non-empty error or with a DOWNLOAD_FAILED position is a row of the
\* worklist of round 2.
ResidualFailuresReachNextRound ==
    exists(ROUND2_CSV) =>
        \A i \in 1..Len(RowsOf(MERGED)) :
            (\/ RowsOf(MERGED)[i].error # <<>>
             \/ Contains(RowsOf(MERGED)[i].observation_urls, DOWNLOAD_FAILED))
            => InIndex(RowsOf(ROUND2_CSV), RowsOf(MERGED)[i].row_index)

\* ---------------------------------------------------------------------------
\* The classifier and the first merge after a harvest of N workers
\* ---------------------------------------------------------------------------
\* 0.scrape takes the worker count from the command line (lines 67-75) and
\* worker w writes third_party_obs_worker_w.csv; the classifier (line 17) and
\* the first merge (line 19) read the files of range(10).  Here the harvest of
\* N workers is over, each worker has written the entry of its first row
\* (row_index w: with N rows the chunk of worker w is [w, w+1)), and either of the two readers runs.
MaxWideWorkers == 11

WideRow(w, failed_page) ==
    IF failed_page
    THEN Row(w, w, AppNos[1], 0, FALSE, 0, <<>>, GotoError)
    ELSE Row(w, w, AppNos[1], 0, TRUE, 1, <<DOWNLOAD_FAILED>>, <<>>)

WideInit ==
    /\ N_WORKERS \in 1..MaxWideWorkers
    /\ total = N_WORKERS
    /\ chunks = <<>>
    /\ CrawlIdle
    /\ frame = <<>>
    /\ downloads = {} /\ crashes = 0
    /\ proc = [w \in 0..(N_WORKERS - 1) |-> [pc |-> "finished", done |-> {}, pos |-> 1]]
    /\ \E kind \in [0..(N_WORKERS - 1) -> BOOLEAN] :
          fs = [f \in {WORKERS(w) : w \in 0..(N_WORKERS - 1)} |->
                    File(<<WideRow(f[2], kind[f[2]])>>)]
    /\ \/ script = "0.scrape" /\ mpc = ""
       \/ script = "3a" /\ mpc = "load"

WideNext == CollectFailures \/ Load3a \/ PageOverride3a \/ DlPatch3a \/ Write3a

SpecWide == WideInit /\ [][WideNext]_vars

\* C33: whatever the worker count N of the harvest, once the classifier has
\* run every entry of every worker's ledger is in one of the two retry lists,
\* and once the first merge has run every such entry has its row in the merged
\* dataset.
AllWorkersCovered ==
    \A w \in 0..(N_WORKERS - 1) : \A i \in 1..Len(RowsOf(WORKERS(w))) :
        /\ Classified => \/ InPageList(RowsOf(WORKERS(w))[i])
                         \/ InDownloadList(RowsOf(WORKERS(w))[i])
        /\ Done3a => InIndex(RowsOf(MERGED), RowsOf(WORKERS(w))[i].row_index)

\* C34: when the workers of round 3 have finished, every position that a
\* round-3 ledger holds resolved has the same locator in
\* third_party_obs_merged_v2.csv, the dataset 8.create_master.py reads.
Round3Reconciled ==
    (script = "3f" /\ AllFinished) =>
        \A w \in DOMAIN proc : \A i \in 1..Len(RowsOf(ROUND3_WORKER(w))) :
            LET row == RowsOf(ROUND3_WORKER(w))[i]
                final == FirstAt(RowsOf(MERGED_V2), row.row_index).observation_urls
            IN  \A k \in 1..Len(split(row.observation_urls)) :
                    split(row.observation_urls)[k] # DOWNLOAD_FAILED =>
                        split(final)[k] = split(row.observation_urls)[k]

\* ---------------------------------------------------------------------------
\* The artifact files of two items of the input
\* ---------------------------------------------------------------------------
\* Two rows of the input file, each with its application number; an item is
\* crawled by the harvest (0.scrape lines 119-147) or, when its page failed
\* there, by the page-level retry (2a lines 140-162).  call is the input
\* table, downloads the files of the downloads directory, ret the list of
\* each item and the paths it wrote or tested.
MaxArtifactRows == 2
MaxArtifactIcons == 2

ArtifactAppNos == {AppNos[1], <<"2345", "_", "20">>, AppNos[2]}

ArtifactInit ==
    /\ total = MaxArtifactRows /\ N_WORKERS = 1 /\ chunks = <<>>
    /\ fs = <<>> /\ script = "" /\ mpc = "" /\ frame = <<>>
    /\ proc = <<>> /\ crashes = 0
    /\ downloads = {}
    /\ call \in [0..(MaxArtifactRows - 1) ->
                    [application_number : ArtifactAppNos, pass : {"0.scrape", "2a"}]]
    /\ ret = [r \in 0..(MaxArtifactRows - 1) |-> [urls |-> <<>>, paths |-> {}]]

\* one icon of item r: the file name is made from the application number and
\* the position; 2a tests the file first, both write it when the fetch succeeds
ArtifactIcon(r, ok) ==
    /\ Len(ret[r].urls) < MaxArtifactIcons
    /\ LET f == out_file(call[r].application_number, Len(ret[r].urls) + 1)
           u == DocUrls[Len(ret[r].urls) + 1]
       IN  IF call[r].pass = "2a" /\ f \in downloads
           THEN /\ ret' = [ret EXCEPT ![r] = [urls |-> Append(@.urls, EXISTS),
                                              paths |-> @.paths \cup {f}]]
                /\ downloads' = downloads
           ELSE /\ ret' = [ret EXCEPT ![r] =
                              [urls |-> Append(@.urls, IF ok THEN u ELSE DOWNLOAD_FAILED),
                               paths |-> IF ok \/ call[r].pass = "2a"
                                         THEN @.paths \cup {f} ELSE @.paths]]
                /\ downloads' = IF ok THEN downloads \cup {f} ELSE downloads
    /\ UNCHANGED <<total, N_WORKERS, chunks, fs, script, mpc, frame, call, proc, crashes>>

ArtifactNext == \E r \in 0..(MaxArtifactRows - 1), ok \in BOOLEAN : ArtifactIcon(r, ok)

SpecArtifacts == ArtifactInit /\ [][ArtifactNext]_vars

\* C35: the paths written or tested for two distinct rows of the input are
\* disjoint, and no position of an item is recorded as EXISTS for a file that
\* another item wrote (here no item tests a file of its own making: an item
\* of the retry wrote nothing in the harvest).
ArtifactsNeverShared ==
    /\ \A r1, r2 \in DOMAIN ret : r1 # r2 => ret[r1].paths \cap ret[r2].paths = {}
    /\ \A r \in DOMAIN ret : \A k \in 1..Len(ret[r].urls) : ret[r].urls[k] # EXISTS

\* C36: in every entry of every ledger has_third_party_observation is true
\* exactly when n_observation_letters is greater than zero.
FlagAgreesWithCount ==
    \A f \in Ledgers : \A i \in 1..Len(RowsOf(f)) :
        RowsOf(f)[i].has_third_party_observation = (RowsOf(f)[i].n_observation_letters > 0)

(***************************************************************************)
(* 5c.google_geocoding_all.py: sequential geocoding, resumable              *)
(***************************************************************************)
\* call holds df_all (lines 42-51: one row per matched observation row, here
\* its application number, which is also its address), fs the geocoded
\* file, ret the run's existing and df_to_geocode, frame its new_rows, mpc
\* the position of the script and crashes the number of runs started again.
\* An application number is a number here; None and NaN are both the empty
\* cell <<>>, as the file holds them.
GEO == <<"DCC_all_applications_geocoded", 0>>
SAVE_INTERVAL == 200

MaxGeoRows == 201
MaxGeoRuns == 2

GeoRow(a, lat, lon) == [application_number |-> a, latitude |-> lat, longitude |-> lon]

\* df_all: the applications 1..201, in which application 1 may come a second
\* time as row 200 or as row 201
GeoInputs ==
    {[i \in 1..MaxGeoRows |-> IF i = d THEN 1 ELSE i] : d \in {0, SAVE_INTERVAL, MaxGeoRows}}

\* the answers of the service: any status for the address of application 1,
\* OK for the others (an OVER_QUERY_LIMIT answer is asked again, lines 93-96)
GeoStatus(a) == IF a = 1 THEN {"OK", "ZERO_RESULTS"} ELSE {"OK"}

\* lines 79-99
geocode_address(address, status) ==
    IF status = "OK" THEN <<<<"lat", address>>, <<"lng", address>>>> ELSE <<<<>>, <<>>>>

AppsIn(df) == {df[i].application_number : i \in 1..Len(df)}

\* line 149: drop_duplicates(subset="application_number"), the first is kept
drop_duplicates_first(df) ==
    LET numbered == [i \in 1..Len(df) |-> [i |-> i, row |-> df[i]]]
        kept == SelectSeq(numbered, LAMBDA p :
                    \A j \in 1..(p.i - 1) :
                        df[j].application_number # p.row.application_number)
    IN  [k \in 1..Len(kept) |-> kept[k].row]

GeoInit ==
    /\ call \in {[df_all |-> d] : d \in GeoInputs}
    /\ total = MaxGeoRows /\ N_WORKERS = 1 /\ chunks = <<>>
    /\ proc = <<>> /\ downloads = {} /\ crashes = 0
    /\ fs = <<>>
    /\ script = "5c" /\ mpc = "load"
    /\ frame = <<>> /\ ret = <<>>

\* lines 57-73
Load5c ==
    /\ script = "5c" /\ mpc = "load"
    /\ LET existing == IF exists(GEO) THEN read_csv(GEO) ELSE <<>>
           already_done == AppsIn(existing)
       IN  ret' = [existing |-> existing,
                   df_to_geocode |-> SelectSeq(call.df_all, LAMBDA a : a \notin already_done)]
    /\ frame' = <<>>
    /\ mpc' = "loop"
    /\ UNCHANGED <<fs, script, call, crashes, partVars, proc, downloads>>

\* lines 108-141: one row of the loop, with the periodic save
Geocode5c ==
    /\ script = "5c" /\ mpc = "loop"
    /\ Len(frame) < Len(ret.df_to_geocode)
    /\ LET a == ret.df_to_geocode[Len(frame) + 1]
       IN  \E status \in GeoStatus(a) :
              LET loc == geocode_address(a, status)
                  new_rows == Append(frame, GeoRow(a, loc[1], loc[2]))
              IN  /\ frame' = new_rows
                  /\ fs' = IF Len(new_rows) % SAVE_INTERVAL = 0
                           THEN to_csv(fs, GEO, ret.existing \o new_rows)
                           ELSE fs
    /\ UNCHANGED <<mpc, script, call, ret, crashes, partVars, proc, downloads>>

\* lines 147-151
FinalSave5c ==
    /\ script = "5c" /\ mpc = "loop"
    /\ Len(frame) = Len(ret.df_to_geocode)
    /\ fs' = to_csv(fs, GEO, drop_duplicates_first(ret.existing \o frame))
    /\ mpc' = "done"
    /\ UNCHANGED <<frame, script, call, ret, crashes, partVars, proc, downloads>>

\* the script is stopped between two rows: new_rows is lost
Interrupt5c ==
    /\ script = "5c" /\ mpc = "loop"
    /\ crashes < MaxGeoRuns
    /\ mpc' = "stopped"
    /\ frame' = <<>> /\ ret' = <<>>
    /\ crashes' = crashes + 1
    /\ UNCHANGED <<fs, script, call, partVars, proc, downloads>>

\* the script is started again
Restart5c ==
    /\ script = "5c" /\ mpc = "stopped"
    /\ mpc' = "load"
    /\ UNCHANGED <<fs, frame, script, call, ret, crashes, partVars, proc, downloads>>

GeoNext == Load5c \/ Geocode5c \/ FinalSave5c \/ Interrupt5c \/ Restart5c

SpecGeocode == GeoInit /\ [][GeoNext]_vars

\* a request is sent: new_rows grows by one row
Sent == script = "5c" /\ mpc = "loop" /\ Len(frame') = Len(frame) + 1

NeverSentAgain ==
    Sent => frame'[Len(frame')].application_number \notin AppsIn(RowsOf(GEO))

RowsBeforeRunKept ==
    (script = "5c" /\ mpc \in {"loop", "done"}) =>
        \/ RowsOf(GEO) = ret.existing
        \/ \A i \in 1..Len(ret.existing) :
              \E j \in 1..Len(RowsOf(GEO)) : RowsOf(GEO)[j] = ret.existing[i]

\* C37: over any sequence of interruptions and restarts of 5c, no
\* application number that the geocoded file holds is sent to the service,
\* and every row the file held before a run is in it after each periodic
\* save and after the final save of that run.
ResumableGeocoding == [][NeverSentAgain]_vars /\ []RowsBeforeRunKept

(***************************************************************************)
(* 5e.merge_geocoded.py: the temp files of the 5d workers are merged into   *)
(* the geocoded file                                                       *)
(***************************************************************************)
\* fs holds the geocoded file and the temp files temp_worker_w.csv that the
\* 5d workers wrote (5d lines 84-95: the rows of results), frame the frames
\* of the script and mpc its position.  An application number is a token
\* sequence, the empty cell <<>> when the file holds none.
TEMP(w) == <<"temp_worker", w>>

MaxGeoWorkers == 2
MaxExistingRows == 2
MaxTempRows == 2

OldCoords == {<<<<>>, <<>>>>, <<<<"lat", "old">>, <<"lng", "old">>>>}
NewCoords == {<<<<>>, <<>>>>, <<<<"lat", "new">>, <<"lng", "new">>>>}
GeoAppNos == {AppNos[1], AppNos[2], <<>>}

GeoRowsOver(coords) == {GeoRow(a, c[1], c[2]) : a \in GeoAppNos, c \in coords}

\* astype(str) on the application_number column (lines 26 and 51)
astype_str(df) == [i \in 1..Len(df) |-> [df[i] EXCEPT !.application_number = str_cell(@)]]

\* line 62
dropna(df) == SelectSeq(df, LAMBDA row : row.application_number # <<>>)

drop_duplicates_last_KeepsFirst(df) == drop_duplicates_first(df)

\* line 65: drop_duplicates(subset="application_number", keep="last")
drop_duplicates_last(df) ==
    LET numbered == [i \in 1..Len(df) |-> [i |-> i, row |-> df[i]]]
        kept == SelectSeq(numbered, LAMBDA p :
                    \A j \in (p.i + 1)..Len(df) :
                        df[j].application_number # p.row.application_number)
    IN  [k \in 1..Len(kept) |-> kept[k].row]

MergeGeoInit ==
    /\ PartIdle /\ CrawlIdle /\ PipeIdle
    /\ script = "5e" /\ mpc = "existing"
    /\ frame = [existing |-> <<>>, workers_combined |-> <<>>, combined |-> <<>>]
    /\ \E g \in Maybe(GEO, SeqsUpTo(GeoRowsOver(OldCoords), MaxExistingRows)),
          t0 \in Maybe(TEMP(0), SeqsUpTo(GeoRowsOver(NewCoords), MaxTempRows)),
          t1 \in Maybe(TEMP(1), SeqsUpTo(GeoRowsOver(NewCoords), 1)) :
          fs = g @@ t0 @@ t1

\* lines 19-26
LoadExisting5e ==
    /\ script = "5e" /\ mpc = "existing"
    /\ frame' = [frame EXCEPT !.existing =
                    astype_str(IF exists(GEO) THEN read_csv(GEO) ELSE <<>>)]
    /\ mpc' = "workers"
    /\ UNCHANGED <<fs, script, notMerge>>

\* lines 38-47: the frames of the files, one after the other
RECURSIVE concat_temp(_)
concat_temp(worker_files) ==
    IF worker_files = <<>> THEN <<>>
    ELSE read_csv(TEMP(Head(worker_files))) \o concat_temp(Tail(worker_files))

\* lines 32-53: glob.glob gives the files found, in any order
LoadWorkers5e ==
    /\ script = "5e" /\ mpc = "workers"
    /\ LET found == {w \in 0..(MaxGeoWorkers - 1) : exists(TEMP(w))}
       IN  \E worker_files \in [1..Cardinality(found) -> found] :
              /\ \A i, j \in 1..Cardinality(found) :
                    worker_files[i] = worker_files[j] => i = j
              /\ frame' = [frame EXCEPT !.workers_combined =
                               astype_str(concat_temp(worker_files))]
    /\ mpc' = "combine"
    /\ UNCHANGED <<fs, script, notMerge>>

\* lines 59-65
Combine5e ==
    /\ script = "5e" /\ mpc = "combine"
    /\ frame' = [frame EXCEPT !.combined =
                    drop_duplicates_last(dropna(frame.existing \o frame.workers_combined))]
    /\ mpc' = "save"
    /\ UNCHANGED <<fs, script, notMerge>>

\* line 73
Save5e ==
    /\ script = "5e" /\ mpc = "save"
    /\ fs' = to_csv(fs, GEO, frame.combined)
    /\ mpc' = "cleanup"
    /\ UNCHANGED <<frame, script, notMerge>>

\* lines 82-89: the temp files are deleted when the answer is y
Cleanup5e ==
    /\ script = "5e" /\ mpc = "cleanup"
    /\ \E delete_temp \in {"y", "n"} :
          fs' = IF delete_temp = "y"
                THEN [f \in DOMAIN fs \ {TEMP(w) : w \in 0..(MaxGeoWorkers - 1)} |-> fs[f]]
                ELSE fs
    /\ mpc' = "done"
    /\ UNCHANGED <<frame, script, notMerge>>

MergeGeoNext == LoadExisting5e \/ LoadWorkers5e \/ Combine5e \/ Save5e \/ Cleanup5e

SpecMergeGeo == MergeGeoInit /\ [][MergeGeoNext]_vars

Saved5e == script = "5e" /\ mpc \in {"cleanup", "done"}

LastOf(df, a) ==
    df[CHOOSE i \in 1..Len(df) :
          /\ df[i].application_number = a
          /\ \A j \in (i + 1)..Len(df) : df[j].application_number # a]

====
